---------------------------- MODULE Spec2Model ----------------------------
(***************************************************************************)
(* State-machine model of the simulation core of maXquerade:               *)
(*   - GameLoop   (src/src/GameLoop.ts)   the level sequencer              *)
(*   - TankAttack (src/src/bvh.ts)        the beam attack                  *)
(*   - Enemy      (src/unnamed/part_007, part_006) kill / death sequence   *)
(*   - Projectile (src/unnamed/part_010)  sweep-and-bounce integration     *)
(*   - the frame loop of Game.ts: ground clamp, projectile-vs-enemy test   *)
(*                                                                         *)
(* Units.  Time is counted in units of 0.025 s (a clamped frame is 1 or 2  *)
(* units, 10 s is 400).  fadeAlpha is counted in units of 0.01, so that    *)
(* fadeSpeed (0.4 per second) is exactly 1 alpha unit per time unit.       *)
(* Sequencer positions are integer vectors in units of 0.1.                *)
(***************************************************************************)
EXTENDS Integers, Sequences, FiniteSets, TLC

Min(a, b) == IF a <= b THEN a ELSE b
Max(a, b) == IF a >= b THEN a ELSE b
Abs(a) == IF a >= 0 THEN a ELSE -a

(***************************************************************************)
(* GameLoop (src/src/GameLoop.ts)                                          *)
(***************************************************************************)
VARIABLES
  phase,               \* GameLoop.phase
  phaseTimer,          \* GameLoop.phaseTimer
  fadeAlpha,           \* GameLoop.fadeAlpha
  fadeReason,          \* GameLoop.fadeReason ("null" for null)
  playerHasMoved,      \* GameLoop.playerHasMoved
  enemyDefeated,       \* GameLoop.enemyDefeated
  lastPlayerPosition,  \* GameLoop.lastPlayerPosition
  currentLevel,        \* GameLoop.currentLevel
  currentEnemies,      \* GameLoop.currentEnemies: the alive flag of each tracked enemy
  \* what an observer of the sequencer sees (not fields of GameLoop)
  lastCall,            \* the method called last and the callbacks it invoked
  introTicked,         \* an update tick was taken in the current visit to intro
  restartCalls,        \* onRestartLevel/onFadeComplete invocations in the current visit to restarting
  visitDtClamped,      \* every tick of the current visit to restarting had 0 < dt <= 0.05 s
  defeatedFired        \* onEnemyDefeated invocations since the phase last was intro

loopVars == <<phase, phaseTimer, fadeAlpha, fadeReason, playerHasMoved, enemyDefeated,
              lastPlayerPosition, currentLevel, currentEnemies,
              lastCall, introTicked, restartCalls, visitDtClamped, defeatedFired>>

\* --- TankAttack (src/src/bvh.ts)
VARIABLES
  beamAlive,           \* TankAttack.alive
  ageSeconds,          \* TankAttack.ageSeconds
  hasDamagedPlayer,    \* TankAttack.hasDamagedPlayer
  direction,           \* TankAttack.direction
  actualDistance,      \* TankAttack.actualDistance
  \* what the caller of the beam sees (not fields of TankAttack)
  beamHits,            \* number of tryHitPlayer calls that returned true
  hitWhenDead,         \* tryHitPlayer returned true on a beam that was not alive
  lastHit,             \* position and result of the latest tryHitPlayer call
  built,               \* targetPos and the outcome of the ray cast the constructor was given
  everyTick            \* "await-update" / "await-hit" while update and tryHitPlayer alternated
                       \* with one player position, "broken" otherwise

beamVars == <<beamAlive, ageSeconds, hasDamagedPlayer, direction, actualDistance,
              beamHits, hitWhenDead, lastHit, built, everyTick>>

\* --- Enemy (src/unnamed/part_007, part_006) and the frame loop (src/src/Game.ts)
VARIABLES
  enemyRevision,       \* which revision of Enemy.kill() the build holds: "part_006" or "part_007"
  enemy,               \* the Enemy objects, by id
  enemies,             \* Game's enemies array, as the ids of its elements
  projectiles,         \* Game's projectiles array: [id, pos] of each projectile in flight
  thrown,              \* projectiles created so far (the id of the latest one)
  \* what an observer of the frame sees (not fields of the program)
  deathStarts,         \* by enemy id, the kill() calls that got past the alive guard
  killCalls,           \* by enemy id, the kill() calls made since the latest frame
  frameKills,          \* the hits of the latest frame, in order: [proj, enemy, pos]
  frameFlew,           \* ids of the projectiles that were alive after update in the latest frame
  frameHittable,       \* ids of the enemies that were alive when the latest frame's
                       \* projectile loop began
  frameExplosions      \* the spawnExplosion calls of the latest frame: [enemy, by], by
                       \* "event" (consumeExplosionEvent) or "hit" (the projectile loop)

combatVars == <<enemyRevision, enemy, enemies, projectiles, thrown,
                deathStarts, killCalls, frameKills, frameFlew, frameHittable,
                frameExplosions>>

\* --- Projectile (src/unnamed/part_010)
VARIABLES
  options,             \* Projectile.options: lifetimeSeconds, collideWithWorld,
                       \* bounceRestitution (a fraction num/den), maxBounces
  projectileAlive,     \* Projectile.alive
  projectileAge,       \* Projectile.ageSeconds
  bounceCount,         \* Projectile.bounceCount
  velocity,            \* Projectile.velocity: <<x, y>> times bounceRestitution^scalings
  \* what an observer of the projectile sees (not fields of Projectile)
  deathCause,          \* why update set alive to false: "lifetime", "collision", "budget"
  struck,              \* the normal of the hit in which update set alive to false
  lastSweeps,          \* iterations of the sweep loop in the latest update
  lastTimes,           \* the values "remaining" took and the time moved in the latest update
  initialSpeed         \* the length of the velocity the constructor was given

projectileVars == <<options, projectileAlive, projectileAge, bounceCount, velocity,
                    deathCause, struck, lastSweeps, lastTimes, initialSpeed>>

\* --- ground handling of one agent (src/src/Game.ts, src/unnamed/part_007)
VARIABLES
  agent,               \* whose movement update is modelled: "player" or "enemy"
  positionY,           \* player.position.y / Enemy.mesh.position.y
  velocityY,           \* velocity.y
  grounded,            \* grounded
  sliding,             \* sliding (player)
  currentHeight,       \* currentHeight (player) / enemyHeight (enemy)
  timeSinceGrounded,   \* timeSinceGrounded (player), counted up to coyoteTime
  collisionMeshes,     \* collisionMeshes.length > 0
  surfaceY,            \* height of the map surface under the agent
  \* what an observer of the update sees (not a field of the program)
  groundFound,         \* the surface the latest update ended on: the result of its final
                       \* checkGround call, or the fallback floor when that clamped
  floorClamped         \* the latest update ended with the final ground clamp or the
                       \* fallback floor lifting the agent

groundVars == <<agent, positionY, velocityY, grounded, sliding, currentHeight,
                timeSinceGrounded, collisionMeshes, surfaceY, groundFound, floorClamped>>

\* --- the orb attack of an enemy (src/unnamed/part_007)
VARIABLES
  shooter,             \* the fields of one Enemy that its orb attack reads and writes
  \* what an observer of the enemy sees (not fields of Enemy)
  shooterSeen,         \* call: the method called last,
                       \* offset: the player's offset from the enemy on the latest update,
                       \* chargeOffset: that offset on the tick the latest charge began,
                       \* shots: shot events set since the latest charge began,
                       \* polled: what the latest consumeOrbShotDirection() returned,
                       \* the zero vector for null
  shotClock            \* sinceShot: update time since the latest shot, counted up to ShotGap;
                       \* gap: its value at the latest shot; fired: the shots counted
                       \* (not fields of Enemy)

orbVars == <<shooter, shooterSeen, shotClock>>

\* --- the jump step of the player (src/src/Game.ts)
VARIABLES
  jump,                \* the player's fields that the jump step reads and writes, after it
  jumpBefore           \* the same fields before the latest jump step (not a field of the
                       \* program)

jumpVars == <<jump, jumpBefore>>

\* --- the horizontal movement of the player (src/src/Game.ts)
VARIABLES
  mover,               \* velocity along the axis of the movement keys, sliding, slideTimer
  moverSeen            \* what the latest tick read and did (not a field of the program)

moveVars == <<mover, moverSeen>>

\* --- a type-1 enemy: pursuit and beam attack (src/unnamed/part_007)
VARIABLES
  tank,                \* state, velocity along the line to the player, isAttacking, the
                       \* time since lastAttackTime, the ages of the beams in attacks
  tankSeen             \* what the latest update read and did (not a field of the program)

tankVars == <<tank, tankSeen>>

\* --- a type-0 enemy: orb charge and horizontal movement (src/unnamed/part_007)
VARIABLES
  charger,             \* alive, state, velocity along the line to the player, orbCharging
                       \* and the clocks of the orb attack
  chargerSeen          \* what the latest call read and did (not a field of the program)

chargerVars == <<charger, chargerSeen>>

\* --- the stages of one frame of animate() (src/src/Game.ts)
VARIABLES
  anim                 \* the position in animate(), the sizes of the enemies, projectiles
                       \* and effects arrays, the loop index, and the stages the current
                       \* frame has finished (ran, rendered: not fields of the program)

animVars == <<anim>>

\* --- one enemy under single calls of its methods (src/unnamed/part_007, part_006)
VARIABLES
  foe,                 \* the enemy
  foeRevision,         \* the revision of kill() the build holds
  foeSeen              \* what the calls so far returned and did (not a field of the program)

foeVars == <<foe, foeRevision, foeSeen>>

\* --- the doors of the map and the collision set (src/src/Game.ts)
VARIABLES
  mapRoot,             \* whether map.glb has loaded, and the door nodes of its scene graph
  collisionMeshList,   \* collisionMeshes: the array every ground, wall, projectile and beam probe is given
  nextDoorIndex,
  doorSeen             \* the calls made so far and what they did (not a field of the program)

doorVars == <<mapRoot, collisionMeshList, nextDoorIndex, doorSeen>>

\* --- a GameLoop that has been reset, next to a new one (src/src/GameLoop.ts)
VARIABLES
  used,                \* the fields of a GameLoop with a history of calls
  fresh,               \* the fields of a GameLoop constructed when the first one was reset
  twinSeen             \* the calls made and the callbacks they invoked (not fields)

twinVars == <<used, fresh, twinSeen>>

\* the variables an action of one component leaves alone
notLoop == <<beamVars, combatVars, projectileVars, groundVars, orbVars, jumpVars, moveVars, tankVars, chargerVars, animVars, foeVars, doorVars, twinVars>>
notBeam == <<loopVars, combatVars, projectileVars, groundVars, orbVars, jumpVars, moveVars, tankVars, chargerVars, animVars, foeVars, doorVars, twinVars>>
notCombat == <<loopVars, beamVars, projectileVars, groundVars, orbVars, jumpVars, moveVars, tankVars, chargerVars, animVars, foeVars, doorVars, twinVars>>
notProjectile == <<loopVars, beamVars, combatVars, groundVars, orbVars, jumpVars, moveVars, tankVars, chargerVars, animVars, foeVars, doorVars, twinVars>>
notGround == <<loopVars, beamVars, combatVars, projectileVars, orbVars, jumpVars, moveVars, tankVars, chargerVars, animVars, foeVars, doorVars, twinVars>>
notOrb == <<loopVars, beamVars, combatVars, projectileVars, groundVars, jumpVars, moveVars, tankVars, chargerVars, animVars, foeVars, doorVars, twinVars>>
notJump == <<loopVars, beamVars, combatVars, projectileVars, groundVars, orbVars, moveVars, tankVars, chargerVars, animVars, foeVars, doorVars, twinVars>>
notMove == <<loopVars, beamVars, combatVars, projectileVars, groundVars, orbVars, jumpVars, tankVars, chargerVars, animVars, foeVars, doorVars, twinVars>>
notTank == <<loopVars, beamVars, combatVars, projectileVars, groundVars, orbVars, jumpVars, moveVars, chargerVars, animVars, foeVars, doorVars, twinVars>>
notCharger == <<loopVars, beamVars, combatVars, projectileVars, groundVars, orbVars, jumpVars, moveVars, tankVars, animVars, foeVars, doorVars, twinVars>>
notAnim == <<loopVars, beamVars, combatVars, projectileVars, groundVars, orbVars, jumpVars, moveVars, tankVars, chargerVars, foeVars, doorVars, twinVars>>
notFoe == <<loopVars, beamVars, combatVars, projectileVars, groundVars, orbVars, jumpVars, moveVars, tankVars, chargerVars, animVars, doorVars, twinVars>>
notDoor == <<loopVars, beamVars, combatVars, projectileVars, groundVars, orbVars, jumpVars, moveVars, tankVars, chargerVars, animVars, foeVars, twinVars>>
notTwin == <<loopVars, beamVars, combatVars, projectileVars, groundVars, orbVars, jumpVars, moveVars, tankVars, chargerVars, animVars, foeVars, doorVars>>

\* --- program constants, in model units
fadeSpeed == 1             \* 0.4 alpha per second = 1 alpha unit (0.01) per time unit (0.025 s)
AlphaOne == 100            \* fadeAlpha = 1
MoveEpsilonSq == 1         \* (0.1)^2, in position units of 0.1
FirstFrameWindow == 4      \* 0.1 s: "phaseTimer < 0.1"
BlackScreenTime == 60      \* 1.5 s: "phaseTimer > 1.5"
NumLevels == 3             \* levels.length
ClampedDt == 2             \* the frame loop's dt clamp, 0.05 s

\* --- bounds of the model
BigDt == 400               \* one unclamped tick of 10 s
MaxIdleTimer == 6          \* outside fade-out and restarting, ticks with 0 < dt <= 0.05 s are
                           \* taken only while phaseTimer <= MaxIdleTimer
MaxBigTickTimer == 1       \* the unclamped tick is taken only while phaseTimer <= MaxBigTickTimer
MaxEnemies == 1            \* tracked enemies per level
MaxRestartCalls == 3       \* callback invocations counted per visit to restarting
MaxDefeatedFired == 2      \* onEnemyDefeated invocations counted between two visits to intro

DtValues == {0, 1, ClampedDt, BigDt}
Origin == <<0, 0, 0>>
\* the origin, a point 0.1 away from it, and the player's spawn point (0, 1.7, 0)
Positions == {Origin, <<1, 0, 0>>, <<0, 17, 0>>}
Phases == {"intro", "playing", "enemy-defeated", "fade-out", "restarting", "fade-in"}
FadePhases == {"fade-out", "restarting", "fade-in"}
\* the phases a run of ticks with dt > 0 always leaves
SelfEndingPhases == {"fade-out", "restarting"}

\* THREE.Vector3.distanceTo, squared
DistSq(a, b) == (a[1] - b[1]) * (a[1] - b[1]) + (a[2] - b[2]) * (a[2] - b[2])
                + (a[3] - b[3]) * (a[3] - b[3])

Call(name, callbacks) == [name |-> name, fired |-> callbacks]

InitLoop ==
  /\ phase = "intro"
  /\ phaseTimer = 0
  /\ fadeAlpha = 0
  /\ fadeReason = "null"
  /\ playerHasMoved = FALSE
  /\ enemyDefeated = FALSE
  /\ lastPlayerPosition = Origin
  /\ currentLevel = 0
  /\ currentEnemies = <<>>
  /\ lastCall = [name |-> "new", fired |-> {}]
  /\ introTicked = FALSE
  /\ restartCalls = 0
  /\ visitDtClamped = TRUE
  /\ defeatedFired = 0

\* the ticks the model takes (its bounds on phaseTimer)
TickArrives(dt) ==
  \/ dt = 0
  \/ dt <= ClampedDt /\ (phase \in SelfEndingPhases \/ phaseTimer <= MaxIdleTimer)
  \/ dt = BigDt /\ phaseTimer <= MaxBigTickTimer

\* distance > 0.1
MovedFrom(p, last) == DistSq(p, last) > MoveEpsilonSq

\* case 'intro'
UpdateIntro(dt, p) ==
  /\ phase = "intro"
  /\ TickArrives(dt)
  /\ phaseTimer' = phaseTimer + dt
  /\ IF ~playerHasMoved /\ MovedFrom(p, lastPlayerPosition)
       THEN playerHasMoved' = TRUE /\ phase' = "playing" /\ introTicked' = FALSE
       ELSE introTicked' = TRUE /\ UNCHANGED <<playerHasMoved, phase>>
  /\ lastPlayerPosition' = p
  /\ lastCall' = Call("update", {})
  /\ UNCHANGED <<fadeAlpha, fadeReason, enemyDefeated, currentLevel, currentEnemies,
                 restartCalls, visitDtClamped, defeatedFired>>
  /\ UNCHANGED notLoop

AllEnemiesDefeatedOrNone ==
  \A i \in 1..Len(currentEnemies) : ~currentEnemies[i]
\* "this.currentEnemies.length > 0 && this.currentEnemies.every(enemy => !enemy.alive)"
AllEnemiesDefeated ==
  Len(currentEnemies) > 0 /\ \A i \in 1..Len(currentEnemies) : ~currentEnemies[i]

\* case 'playing'
UpdatePlaying(dt, p) ==
  /\ phase = "playing"
  /\ TickArrives(dt)
  /\ IF AllEnemiesDefeated /\ ~enemyDefeated
       THEN /\ defeatedFired < MaxDefeatedFired
            /\ enemyDefeated' = TRUE
            /\ phase' = "enemy-defeated"
            /\ phaseTimer' = 0
            /\ lastCall' = Call("update", {"onEnemyDefeated"})
            /\ defeatedFired' = defeatedFired + 1
       ELSE /\ phaseTimer' = phaseTimer + dt
            /\ lastCall' = Call("update", {})
            /\ UNCHANGED <<enemyDefeated, phase, defeatedFired>>
  /\ UNCHANGED <<fadeAlpha, fadeReason, playerHasMoved, lastPlayerPosition, currentLevel,
                 currentEnemies, introTicked, restartCalls, visitDtClamped>>
  /\ UNCHANGED notLoop

\* case 'enemy-defeated'
UpdateEnemyDefeated(dt, p) ==
  /\ phase = "enemy-defeated"
  /\ TickArrives(dt)
  /\ phaseTimer' = phaseTimer + dt
  /\ lastCall' = Call("update", {})
  /\ UNCHANGED <<phase, fadeAlpha, fadeReason, playerHasMoved, enemyDefeated,
                 lastPlayerPosition, currentLevel, currentEnemies, introTicked,
                 restartCalls, visitDtClamped, defeatedFired>>
  /\ UNCHANGED notLoop

FadeOutAlphaUnclamped(a, dt) == a + fadeSpeed * dt
\* Math.min(this.fadeAlpha + this.fadeSpeed * dt, 1)
FadeOutAlpha(a, dt) == Min(a + fadeSpeed * dt, AlphaOne)

FadeInAlphaUnclamped(a, dt) == a - fadeSpeed * dt
\* Math.max(this.fadeAlpha - this.fadeSpeed * dt, 0)
FadeInAlpha(a, dt) == Max(a - fadeSpeed * dt, 0)

\* case 'fade-out'
FadeOutStep(dt, p) ==
  /\ phase = "fade-out"
  /\ fadeAlpha' = FadeOutAlpha(fadeAlpha, dt)
  /\ IF fadeAlpha' >= AlphaOne
       THEN /\ phase' = "restarting"
            /\ phaseTimer' = 0
            /\ restartCalls' = 0
            /\ visitDtClamped' = TRUE
       ELSE /\ phaseTimer' = phaseTimer + dt
            /\ UNCHANGED <<phase, restartCalls, visitDtClamped>>
  /\ lastCall' = Call("update", {})
  /\ UNCHANGED <<fadeReason, playerHasMoved, enemyDefeated, lastPlayerPosition,
                 currentLevel, currentEnemies, introTicked, defeatedFired>>
  /\ UNCHANGED notLoop
\* the case, on the ticks the model takes
UpdateFadeOut(dt, p) == TickArrives(dt) /\ FadeOutStep(dt, p)

\* the callback the restarting phase selects by the stored fade reason
RestartCallback == IF fadeReason = "player-death" THEN "onRestartLevel" ELSE "onFadeComplete"

\* "if (this.phaseTimer < 0.1)", on the timer already advanced by dt
FiresRestartCallback(timer) == timer < FirstFrameWindow

\* case 'restarting'
RestartingStep(dt, p) ==
  /\ phase = "restarting"
  /\ LET timer == phaseTimer + dt
         fires == FiresRestartCallback(timer)
     IN /\ fires => restartCalls < MaxRestartCalls
        /\ lastCall' = Call("update", IF fires THEN {RestartCallback} ELSE {})
        /\ IF timer > BlackScreenTime
             THEN /\ phase' = "fade-in"
                  /\ phaseTimer' = 0
                  /\ restartCalls' = 0
                  /\ visitDtClamped' = TRUE
             ELSE /\ phase' = phase
                  /\ phaseTimer' = timer
                  /\ restartCalls' = IF fires THEN restartCalls + 1 ELSE restartCalls
                  /\ visitDtClamped' = (visitDtClamped /\ dt > 0 /\ dt <= ClampedDt)
  /\ UNCHANGED <<fadeAlpha, fadeReason, playerHasMoved, enemyDefeated, lastPlayerPosition,
                 currentLevel, currentEnemies, introTicked, defeatedFired>>
  /\ UNCHANGED notLoop
\* the case, on the ticks the model takes
UpdateRestarting(dt, p) == TickArrives(dt) /\ RestartingStep(dt, p)

\* case 'fade-in'
FadeInStep(dt, p) ==
  /\ phase = "fade-in"
  /\ phaseTimer' = phaseTimer + dt
  /\ fadeAlpha' = FadeInAlpha(fadeAlpha, dt)
  /\ IF fadeAlpha' <= 0
       THEN /\ phase' = "intro"
            /\ playerHasMoved' = FALSE
            /\ enemyDefeated' = FALSE
            /\ fadeReason' = "null"
            /\ defeatedFired' = 0
       ELSE UNCHANGED <<phase, playerHasMoved, enemyDefeated, fadeReason, defeatedFired>>
  /\ lastCall' = Call("update", {})
  /\ UNCHANGED <<lastPlayerPosition, currentLevel, currentEnemies, introTicked,
                 restartCalls, visitDtClamped>>
  /\ UNCHANGED notLoop
\* the case, on the ticks the model takes
UpdateFadeIn(dt, p) == TickArrives(dt) /\ FadeInStep(dt, p)

\* GameLoop.update(dt, playerPosition)
Update(dt, p) ==
  \/ UpdateIntro(dt, p)
  \/ UpdatePlaying(dt, p)
  \/ UpdateEnemyDefeated(dt, p)
  \/ UpdateFadeOut(dt, p)
  \/ UpdateRestarting(dt, p)
  \/ UpdateFadeIn(dt, p)

MaskPickupAccepted == phase = "playing" \/ phase = "enemy-defeated"

\* GameLoop.triggerMaskPickup()
TriggerMaskPickup ==
  /\ IF MaskPickupAccepted
       THEN /\ fadeReason' = "level-advance"
            /\ phase' = "fade-out"
            /\ phaseTimer' = 0
            /\ lastCall' = Call("triggerMaskPickup", {"onMaskPickup"})
       ELSE /\ lastCall' = Call("triggerMaskPickup", {})
            /\ UNCHANGED <<fadeReason, phase, phaseTimer>>
  /\ UNCHANGED <<fadeAlpha, playerHasMoved, enemyDefeated, lastPlayerPosition, currentLevel,
                 currentEnemies, introTicked, restartCalls, visitDtClamped, defeatedFired>>
  /\ UNCHANGED notLoop

PlayerDeathIgnoredInFadesOnly == phase \in {"fade-out", "fade-in"}
\* "if (phase === 'fade-out' || phase === 'fade-in' || phase === 'restarting') return"
PlayerDeathIgnored == phase \in {"fade-out", "fade-in", "restarting"}

\* GameLoop.triggerPlayerDeath()
TriggerPlayerDeath ==
  /\ IF PlayerDeathIgnored
       THEN UNCHANGED <<fadeReason, phase, phaseTimer, introTicked>>
       ELSE /\ fadeReason' = "player-death"
            /\ phase' = "fade-out"
            /\ phaseTimer' = 0
            /\ introTicked' = FALSE
  /\ lastCall' = Call("triggerPlayerDeath", {})
  /\ UNCHANGED <<fadeAlpha, playerHasMoved, enemyDefeated, lastPlayerPosition, currentLevel,
                 currentEnemies, restartCalls, visitDtClamped, defeatedFired>>
  /\ UNCHANGED notLoop

NextLevelIndexWithoutWrap(level) == level + 1
\* "this.currentLevel++; if (this.currentLevel >= this.levels.length) this.currentLevel = 0"
NextLevelIndex(level) == IF level + 1 >= NumLevels THEN 0 ELSE level + 1

\* GameLoop.startNextLevel()
StartNextLevel ==
  /\ currentLevel' = NextLevelIndex(currentLevel)
  /\ phase' = "fade-in"
  /\ phaseTimer' = 0
  /\ lastCall' = Call("startNextLevel", {"onLevelComplete"})
  /\ restartCalls' = 0
  /\ visitDtClamped' = TRUE
  /\ introTicked' = FALSE
  /\ UNCHANGED <<fadeAlpha, fadeReason, playerHasMoved, enemyDefeated, lastPlayerPosition,
                 currentEnemies, defeatedFired>>
  /\ UNCHANGED notLoop

\* levels[i].waitForPlayerMovement
WaitForPlayerMovement == [level \in 0..(NumLevels - 1) |-> TRUE]

ShouldEnemyWaitAfterMove == WaitForPlayerMovement[currentLevel] /\ playerHasMoved
\* GameLoop.shouldEnemyWait()
ShouldEnemyWait == WaitForPlayerMovement[currentLevel] /\ ~playerHasMoved

ResetKeepingPlayerHasMoved ==
  /\ phase' = "intro"
  /\ phaseTimer' = 0
  /\ enemyDefeated' = FALSE
  /\ currentEnemies' = <<>>
  /\ fadeAlpha' = 0
  /\ lastPlayerPosition' = Origin
  /\ lastCall' = Call("reset", {})
  /\ restartCalls' = 0
  /\ visitDtClamped' = TRUE
  /\ introTicked' = FALSE
  /\ defeatedFired' = 0
  /\ UNCHANGED <<fadeReason, currentLevel, playerHasMoved>>
  /\ UNCHANGED notLoop
\* GameLoop.reset()
Reset ==
  /\ phase' = "intro"
  /\ phaseTimer' = 0
  /\ playerHasMoved' = FALSE
  /\ enemyDefeated' = FALSE
  /\ currentEnemies' = <<>>
  /\ fadeAlpha' = 0
  /\ lastPlayerPosition' = Origin
  /\ lastCall' = Call("reset", {})
  /\ restartCalls' = 0
  /\ visitDtClamped' = TRUE
  /\ introTicked' = FALSE
  /\ defeatedFired' = 0
  /\ UNCHANGED <<fadeReason, currentLevel>>
  /\ UNCHANGED notLoop

\* the game assigns the level's enemies to the public field currentEnemies
SetCurrentEnemies ==
  /\ \E n \in 1..MaxEnemies : currentEnemies' = [i \in 1..n |-> TRUE]
  /\ currentEnemies /= currentEnemies'
  /\ lastCall' = Call("setCurrentEnemies", {})
  /\ UNCHANGED <<phase, phaseTimer, fadeAlpha, fadeReason, playerHasMoved, enemyDefeated,
                 lastPlayerPosition, currentLevel, introTicked, restartCalls,
                 visitDtClamped, defeatedFired>>
  /\ UNCHANGED notLoop

\* a tracked enemy is killed (Enemy.alive becomes false)
TrackedEnemyDies ==
  /\ \E i \in 1..Len(currentEnemies) :
        /\ currentEnemies[i]
        /\ currentEnemies' = [currentEnemies EXCEPT ![i] = FALSE]
  /\ lastCall' = Call("enemyKilled", {})
  /\ UNCHANGED <<phase, phaseTimer, fadeAlpha, fadeReason, playerHasMoved, enemyDefeated,
                 lastPlayerPosition, currentLevel, introTicked, restartCalls,
                 visitDtClamped, defeatedFired>>
  /\ UNCHANGED notLoop

NextLoop ==
  \/ \E dt \in DtValues, p \in Positions : Update(dt, p)
  \/ TriggerMaskPickup
  \/ TriggerPlayerDeath
  \/ StartNextLevel
  \/ Reset
  \/ SetCurrentEnemies
  \/ TrackedEnemyDies

(***************************************************************************)
(* TankAttack (src/src/bvh.ts, lines 32-263)                               *)
(*                                                                         *)
(* Beam positions are integer vectors <<x, y>> in units of 0.05: x runs    *)
(* along the line from startPos to targetPos, y across it. startPos is the *)
(* origin. The direction is <<1, 0>>, <<-1, 0>> or, when targetPos equals   *)
(* startPos, the zero vector that Vector3.normalize() leaves.              *)
(***************************************************************************)
\* --- program constants, in model units
buildDuration == 40        \* 1 s
NoWallDistance == 1000     \* "No wall hit, use max distance": 50
NoMeshFactor == 3          \* "No collision meshes, extend by 3x"
PlayerRadius == 7          \* playerRadius = 0.35
PlayerPadding == 2         \* playerPadding = 0.1

\* --- bounds of the model
MaxBeamHits == 2           \* true returns counted per beam

BeamDts == {1, ClampedDt}
\* targetPos along the line (0: the target is the start point)
TargetXs == {0, 20, -20}
\* what the constructor's ray cast meets: no collision meshes at all, meshes but
\* no hit within raycaster.far, or a wall at the given distance
WallCasts == {[meshes |-> FALSE, hit |-> FALSE, distance |-> 0],
              [meshes |-> TRUE, hit |-> FALSE, distance |-> 0],
              [meshes |-> TRUE, hit |-> TRUE, distance |-> 30]}
PlayerSpots == {<<x, y>> : x \in {-10, 0, 15, 30, 60}, y \in {0, 9, 10}}

\* Vector3.normalize() of targetPos - startPos, along the line
Normalize(dx) == IF dx > 0 THEN <<1, 0>> ELSE IF dx < 0 THEN <<-1, 0>> ELSE <<0, 0>>

CalculateWallDistanceToFarLimit(targetX, cast) ==
  IF ~cast.meshes THEN Abs(targetX) * NoMeshFactor
  ELSE IF ~cast.hit THEN 2 * NoWallDistance
  ELSE cast.distance

\* calculateWallDistance()
CalculateWallDistance(targetX, cast) ==
  IF ~cast.meshes THEN Abs(targetX) * NoMeshFactor
  ELSE IF ~cast.hit THEN NoWallDistance
  ELSE cast.distance

\* lastHit before the first tryHitPlayer call
NoHitYet == [called |-> FALSE, pos |-> <<0, 0>>, result |-> FALSE]

\* new TankAttack(startPos, targetPos, collisionMeshes)
InitBeam ==
  /\ beamAlive = TRUE
  /\ ageSeconds = 0
  /\ hasDamagedPlayer = FALSE
  /\ \E targetX \in TargetXs, cast \in WallCasts :
        /\ direction = Normalize(targetX)
        /\ actualDistance = CalculateWallDistance(targetX, cast)
        /\ built = [targetX |-> targetX, cast |-> cast]
  /\ beamHits = 0
  /\ hitWhenDead = FALSE
  /\ lastHit = NoHitYet
  /\ everyTick = "await-update"

\* the state of the beam variables in the specifications that are not about a beam
ParkedBeam ==
  /\ beamAlive = FALSE
  /\ ageSeconds = 0
  /\ hasDamagedPlayer = FALSE
  /\ direction = <<0, 0>>
  /\ actualDistance = 0
  /\ built = [targetX |-> 0, cast |-> [meshes |-> FALSE, hit |-> FALSE, distance |-> 0]]
  /\ beamHits = 0
  /\ hitWhenDead = FALSE
  /\ lastHit = NoHitYet
  /\ everyTick = "await-update"

\* TankAttack.update({dt, camera}): the particle placement that follows changes no
\* field this model keeps
BeamUpdate(dt) ==
  /\ beamAlive
  /\ ageSeconds' = ageSeconds + dt
  /\ beamAlive' = ~(ageSeconds' >= buildDuration)
  /\ everyTick' = IF everyTick = "await-update" THEN "await-hit" ELSE "broken"
  /\ UNCHANGED <<hasDamagedPlayer, direction, actualDistance, beamHits, hitWhenDead, lastHit,
                 built>>
  /\ UNCHANGED notBeam

\* update on a beam that is no longer alive returns at once
BeamUpdateDead(dt) ==
  /\ ~beamAlive
  /\ everyTick = "await-update"
  /\ everyTick' = "await-hit"
  /\ UNCHANGED <<beamAlive, ageSeconds, hasDamagedPlayer, direction, actualDistance,
                 beamHits, hitWhenDead, lastHit, built>>
  /\ UNCHANGED notBeam

Dot(a, b) == a[1] * b[1] + a[2] * b[2]
BeamDistSq(a, b) == (a[1] - b[1]) * (a[1] - b[1]) + (a[2] - b[2]) * (a[2] - b[2])

\* "t < 0 || t > currentLength", with currentLength = actualDistance * progress and
\* progress = clamp(ageSeconds / max(buildDuration, 1e-6), 0, 1); both sides times
\* buildDuration
OutsideCurrentLength(t) ==
  t < 0 \/ t * buildDuration > actualDistance * Max(0, Min(ageSeconds, buildDuration))

\* the point of the line closest to the player is within hitR of the player
WithinHitRadius(playerPos, t) ==
  LET closest == <<direction[1] * t, direction[2] * t>>
      hitR == Max(0, PlayerRadius + PlayerPadding)
  IN BeamDistSq(closest, playerPos) <= hitR * hitR

HitRefusedWhenDeadOnly == ~beamAlive
\* "if (!this.alive || this.hasDamagedPlayer) return false"
HitRefused == ~beamAlive \/ hasDamagedPlayer

\* what tryHitPlayer(playerPos, playerRadius) returns
TryHitResult(playerPos) ==
  LET t == Dot(playerPos, direction)
  IN /\ ~HitRefused
     /\ ~OutsideCurrentLength(t)
     /\ WithinHitRadius(playerPos, t)

\* TankAttack.tryHitPlayer(playerPos, playerRadius)
TryHitPlayer(playerPos) ==
  /\ beamHits < MaxBeamHits
  /\ LET hit == TryHitResult(playerPos)
     IN /\ hasDamagedPlayer' = (hasDamagedPlayer \/ hit)
        /\ beamHits' = IF hit THEN beamHits + 1 ELSE beamHits
        /\ hitWhenDead' = (hitWhenDead \/ (hit /\ ~beamAlive))
        /\ lastHit' = [called |-> TRUE, pos |-> playerPos, result |-> hit]
  /\ everyTick' = IF everyTick = "await-hit" /\ (~lastHit.called \/ lastHit.pos = playerPos)
                     THEN "await-update" ELSE "broken"
  /\ UNCHANGED <<beamAlive, ageSeconds, direction, actualDistance, built>>
  /\ UNCHANGED notBeam

NextBeam ==
  \/ \E dt \in BeamDts : BeamUpdate(dt)
  \/ \E dt \in BeamDts : BeamUpdateDead(dt)
  \/ \E playerPos \in PlayerSpots : TryHitPlayer(playerPos)

(***************************************************************************)
(* Enemy death and the frame loop's projectile-versus-enemy pass           *)
(* (src/unnamed/part_007 and part_006; src/src/Game.ts, lines 693-758)     *)
(*                                                                         *)
(* Positions are <<x, y>> in units of 0.01 (z is 0). Where an enemy stands *)
(* and where a projectile flies to are inputs of the frame: the movement   *)
(* code is modelled in the specifications about movement. Of an enemy's    *)
(* velocity the model keeps whether the horizontal part and the vertical   *)
(* part are non-zero.                                                      *)
(***************************************************************************)
\* --- program constants, in model units
enemyRadius == 50          \* 0.5
enemyHeight == 200         \* 2.0
KnifeCollisionRadius == 16 \* collisionRadius: 0.16
DeathLastFrameOffset == 4  \* deathFrameCount - 1
DeathFrameRateNum == 3     \* deathFPS = 12 frames/s = 3/10 frame per time unit
DeathFrameRateDen == 10

\* --- bounds of the model
NumEnemies == 2            \* enemies spawned
MaxProjectiles == 2        \* projectiles in flight at once
MaxThrown == 3             \* projectiles created in a behaviour
MaxDeathStarts == 2        \* death sequences counted per enemy
MaxKillCalls == 2          \* kill() calls on one enemy between two frames

EnemyIds == 1..NumEnemies
\* the types of the spawned enemies: Game.ts spawns types 0 and 1, the levels of
\* GameLoop also two of type 0
EnemyTypes == {<<0, 1>>, <<0, 0>>}
EnemySpots == <<(<<0, 200>>), (<<60, 200>>)>>
\* between both enemies; beside the first only, at a height between halfHeight and
\* halfHeight + collisionRadius above its centre; above both
ProjectileSpots == {<<30, 200>>, <<-60, 410>>, <<30, 420>>}
\* what Projectile.update does to one projectile in a frame: it flies to a spot, or
\* it is marked not alive (lifetime, wall)
ProjectileMoves == [pos : ProjectileSpots, alive : {TRUE}]
                     \cup [pos : {<<30, 200>>}, alive : {FALSE}]
FrameDts == {1, ClampedDt}
PlayerRanges == {"near", "between", "far"}     \* distance < 15, 15..25, > 25
\* in the specification with projectiles the enemies stand on the floor
CombatGrounded == {TRUE}
Revisions == {"part_006", "part_007"}

Range(seq) == {seq[i] : i \in 1..Len(seq)}
RemoveAt(seq, j) == [i \in 1..(Len(seq) - 1) |-> IF i < j THEN seq[i] ELSE seq[i + 1]]

\* new Enemy(position, 'idle', type)
NewEnemy(id, type) ==
  [type |-> type, alive |-> TRUE, state |-> "idle", deathAnimTime |-> 0,
   velocity |-> [horizontal |-> FALSE, vertical |-> FALSE],
   hideOnNextUpdate |-> FALSE, spawnExplosionEvent |-> FALSE, visible |-> TRUE,
   spriteReady |-> FALSE, pos |-> EnemySpots[id], inMaskedScene |-> TRUE]

InitCombat ==
  /\ enemyRevision \in Revisions
  /\ \E types \in EnemyTypes : enemy = [id \in EnemyIds |-> NewEnemy(id, types[id])]
  /\ enemies = [i \in 1..NumEnemies |-> i]
  /\ projectiles = <<>>
  /\ thrown = 0
  /\ deathStarts = [id \in EnemyIds |-> 0]
  /\ killCalls = [id \in EnemyIds |-> 0]
  /\ frameKills = <<>>
  /\ frameFlew = {}
  /\ frameHittable = {}
  /\ frameExplosions = {}

\* the state of the combat variables in the specifications that are not about them
ParkedCombat ==
  /\ enemyRevision = "part_007"
  /\ enemy = [id \in EnemyIds |-> NewEnemy(id, 0)]
  /\ enemies = <<>>
  /\ projectiles = <<>>
  /\ thrown = 0
  /\ deathStarts = [id \in EnemyIds |-> 0]
  /\ killCalls = [id \in EnemyIds |-> 0]
  /\ frameKills = <<>>
  /\ frameFlew = {}
  /\ frameHittable = {}
  /\ frameExplosions = {}

\* get isHittable()
IsHittableAlways(e) == TRUE
IsHittable(e) == e.alive

\* "if (!this.alive) return"
KillNeverIgnored(e) == FALSE
KillIgnored(e) == ~e.alive

KillKeepingState(e, revision) ==
  IF KillIgnored(e) THEN e
  ELSE [e EXCEPT !.alive = FALSE, !.velocity = [horizontal |-> FALSE, vertical |-> FALSE],
                 !.deathAnimTime = 0, !.hideOnNextUpdate = FALSE,
                 !.spawnExplosionEvent = FALSE]
\* Enemy.kill(), in the revision the build holds
Kill(e, revision) ==
  IF KillIgnored(e) THEN e
  ELSE LET stopped == [e EXCEPT !.alive = FALSE,
                                !.velocity = [horizontal |-> FALSE, vertical |-> FALSE]]
       IN IF revision = "part_007" \/ e.type = 0
            THEN [stopped EXCEPT !.state = "dying", !.deathAnimTime = 0,
                                 !.hideOnNextUpdate = FALSE, !.spawnExplosionEvent = FALSE]
            ELSE [stopped EXCEPT !.state = "dead", !.visible = FALSE]

ConsumeExplosionEventKeepingIt(e) == e
\* Enemy.consumeExplosionEvent(): the enemy after the call
ConsumeExplosionEvent(e) == [e EXCEPT !.spawnExplosionEvent = FALSE]

\* the death frame drawn at deathAnimTime t is the last one
DeathFrameIsLast(t) ==
  Min(DeathLastFrameOffset, (t * DeathFrameRateNum) \div DeathFrameRateDen) >= DeathLastFrameOffset

\* Enemy.update(): the state transitions, the velocity and the death animation
EnemyUpdate(e, dt, range, onGround) ==
  IF e.hideOnNextUpdate
    THEN [e EXCEPT !.hideOnNextUpdate = FALSE, !.visible = FALSE]
    ELSE
      LET state1 == IF e.state = "idle" /\ range = "near" THEN "pursuing"
                    ELSE IF e.state = "pursuing" /\ range = "far" THEN "idle"
                    ELSE e.state
          horizontal == IF state1 = "pursuing" /\ e.alive THEN TRUE
                        ELSE IF state1 = "idle"
                               THEN (IF onGround THEN FALSE ELSE e.velocity.horizontal)
                        ELSE FALSE
          vertical == ~onGround
          moved == [e EXCEPT !.state = state1,
                             !.velocity = [horizontal |-> horizontal, vertical |-> vertical]]
      IN IF e.spriteReady /\ state1 = "dying"
           THEN IF DeathFrameIsLast(e.deathAnimTime)
                  THEN [moved EXCEPT !.deathAnimTime = @ + dt, !.state = "dead",
                                     !.hideOnNextUpdate = TRUE, !.spawnExplosionEvent = TRUE]
                  ELSE [moved EXCEPT !.deathAnimTime = @ + dt]
           ELSE moved

OverlapsWithinHalfHeight(pos, e) ==
  LET dx == pos[1] - e.pos[1]
      r == enemyRadius + KnifeCollisionRadius
  IN /\ ~(dx * dx > r * r)
     /\ ~(Abs(pos[2] - e.pos[2]) > enemyHeight)
\* the projectile-versus-enemy test of the frame loop
Overlaps(pos, e) ==
  LET dx == pos[1] - e.pos[1]
      r == enemyRadius + KnifeCollisionRadius
  IN /\ ~(dx * dx > r * r)
     /\ ~(Abs(pos[2] - e.pos[2]) > enemyHeight + KnifeCollisionRadius)

RemovedOnHitNever(e) == FALSE
\* "if (e.type !== 0)": spawnExplosion, maskedEnemyScene.remove, dispose, splice
RemovedOnHit(e) == e.type /= 0

\* "for (let j = enemies.length - 1; j >= 0; j--)": the scan of one projectile,
\* from enemy j down; it ends at the first hit ("break")
RECURSIVE ScanEnemies(_, _, _)
ScanEnemies(j, p, st) ==
  IF j = 0 THEN st
  ELSE LET id == st.enemies[j]
           e == st.enemy[id]
       IN IF ~IsHittable(e) \/ ~Overlaps(p.pos, e)
            THEN ScanEnemies(j - 1, p, st)
            ELSE [st EXCEPT !.enemy[id] = [Kill(e, enemyRevision) EXCEPT
                                             !.inMaskedScene = @ /\ ~RemovedOnHit(e)],
                            !.enemies = IF RemovedOnHit(e) THEN RemoveAt(@, j) ELSE @,
                            !.kills = Append(@, [proj |-> p.id, enemy |-> id,
                                                 pos |-> p.pos,
                                                 started |-> ~KillIgnored(e),
                                                 exploded |-> RemovedOnHit(e)])]

\* "for (let i = projectiles.length - 1; i >= 0; i--)": projectile i and those before it
RECURSIVE ProjectileLoop(_, _, _)
ProjectileLoop(i, moves, st) ==
  IF i = 0 THEN st
  ELSE LET p == [id |-> projectiles[i].id, pos |-> moves[i].pos]
           scanned == IF moves[i].alive THEN ScanEnemies(Len(st.enemies), p, st) ELSE st
           hit == Len(scanned.kills) > Len(st.kills)
       IN ProjectileLoop(i - 1, moves,
            [scanned EXCEPT
               !.projectiles = IF moves[i].alive /\ ~hit THEN <<p>> \o @ ELSE @,
               !.flew = IF moves[i].alive THEN @ \cup {p.id} ELSE @])

StartsIn(kills, id) == Cardinality({k \in 1..Len(kills) : kills[k].enemy = id /\ kills[k].started})

\* one frame of Game's animate(): every enemy of the array is updated and its
\* explosion event consumed, then every projectile is updated and tested
Frame(dt, range, onGround, moves) ==
  /\ \A id \in EnemyIds : deathStarts[id] < MaxDeathStarts
  /\ \E updated \in {[id \in EnemyIds |->
                         IF id \in Range(enemies)
                           THEN ConsumeExplosionEvent(EnemyUpdate(enemy[id], dt, range, onGround))
                           ELSE enemy[id]]} :
     \E done \in {ProjectileLoop(Len(projectiles), moves,
                     [enemy |-> updated, enemies |-> enemies, kills |-> <<>>,
                      projectiles |-> <<>>, flew |-> {}])} :
        /\ enemy' = done.enemy
        /\ enemies' = done.enemies
        /\ projectiles' = done.projectiles
        /\ frameKills' = [k \in 1..Len(done.kills) |->
                            [proj |-> done.kills[k].proj, enemy |-> done.kills[k].enemy,
                             pos |-> done.kills[k].pos]]
        /\ frameFlew' = done.flew
        /\ frameHittable' = {id \in Range(enemies) : updated[id].alive}
        /\ frameExplosions' =
             {[enemy |-> id, by |-> "event"] :
                id \in {i \in Range(enemies) :
                          EnemyUpdate(enemy[i], dt, range, onGround).spawnExplosionEvent}}
               \cup {[enemy |-> done.kills[k].enemy, by |-> "hit"] :
                       k \in {j \in 1..Len(done.kills) : done.kills[j].exploded}}
        /\ deathStarts' = [id \in EnemyIds |-> deathStarts[id] + StartsIn(done.kills, id)]
  /\ killCalls' = [id \in EnemyIds |-> 0]
  /\ UNCHANGED <<enemyRevision, thrown>>
  /\ UNCHANGED notCombat

\* a call of Enemy.kill() from outside the projectile loop
KillCall(id) ==
  /\ deathStarts[id] < MaxDeathStarts
  /\ killCalls[id] < MaxKillCalls
  /\ killCalls' = [killCalls EXCEPT ![id] = @ + 1]
  /\ enemy' = [enemy EXCEPT ![id] = Kill(enemy[id], enemyRevision)]
  /\ deathStarts' = [deathStarts EXCEPT ![id] = IF KillIgnored(enemy[id]) THEN @ ELSE @ + 1]
  /\ frameKills' = <<>>
  /\ frameFlew' = {}
  /\ frameHittable' = {}
  /\ frameExplosions' = {}
  /\ UNCHANGED <<enemyRevision, enemies, projectiles, thrown>>
  /\ UNCHANGED notCombat

\* the player throws a knife: "projectiles.push(p)"
ThrowKnife(pos) ==
  /\ thrown < MaxThrown
  /\ Len(projectiles) < MaxProjectiles
  /\ thrown' = thrown + 1
  /\ projectiles' = Append(projectiles, [id |-> thrown + 1, pos |-> pos])
  /\ UNCHANGED <<enemyRevision, enemy, enemies, deathStarts, killCalls, frameKills,
                 frameFlew, frameHittable, frameExplosions>>
  /\ UNCHANGED notCombat

\* loadSprites() resolves: spriteReady = true
SpriteLoaded(id) ==
  /\ ~enemy[id].spriteReady
  /\ enemy' = [enemy EXCEPT ![id].spriteReady = TRUE]
  /\ UNCHANGED <<enemyRevision, enemies, projectiles, thrown, deathStarts, killCalls,
                 frameKills, frameFlew, frameHittable, frameExplosions>>
  /\ UNCHANGED notCombat

NextEnemy ==
  \/ \E dt \in FrameDts, range \in PlayerRanges, onGround \in BOOLEAN :
        Frame(dt, range, onGround, <<>>)
  \/ \E id \in EnemyIds : KillCall(id)
  \/ \E id \in EnemyIds : SpriteLoaded(id)

NextCombat ==
  \/ \E dt \in FrameDts, range \in PlayerRanges, onGround \in CombatGrounded,
          moves \in [1..Len(projectiles) -> ProjectileMoves] :
        Frame(dt, range, onGround, moves)
  \/ \E pos \in ProjectileSpots : ThrowKnife(pos)
  \/ \E id \in EnemyIds : SpriteLoaded(id)

(***************************************************************************)
(* Projectile (src/unnamed/part_010)                                       *)
(*                                                                         *)
(* Time is in units of 0.00001 s and speed in m/s. gravity and drag are 0, *)
(* as in every projectile the game creates, so the velocity changes only   *)
(* in a bounce: it is kept as the vector <<x, y>> and the number of times  *)
(* it was scaled by bounceRestitution. What the ray cast of a sweep meets  *)
(* is an input of update.                                                  *)
(***************************************************************************)
\* --- program constants, in model units
maxIterations == 6         \* const maxIterations = 6
ProgressNudge == 1         \* "remaining - 1e-5"
PerEpsilon == 10           \* 1e-6 is one tenth of the unit of time (s) and of speed * time (m)

\* --- bounds of the model
MaxProjectileAge == 15000  \* update is called while ageSeconds + dt <= 0.15 s

ProjectileDts == {2500, 5000}
Restitutions == {[num |-> 0, den |-> 1], [num |-> 1, den |-> 2], [num |-> 1, den |-> 1]}
OptionSets ==
  [lifetimeSeconds : {0, 10000}, collideWithWorld : BOOLEAN,
   bounceRestitution : Restitutions, maxBounces : {0, 1, 2, 7}]
InitialVelocities == {<<0, 0>>, <<32, 0>>, <<24, -32>>}

\* one result of raycaster.intersectObjects: no hit, or a first hit after the
\* fraction (0 or 1) of the sweep, on a face with a normal along "x" or "y" or
\* with no normal ("none")
FractionParts == 2         \* travelDist / dist is counted in halves
NoSweepYet == [remaining |-> <<>>, moved |-> 0]
NoHit == [hit |-> FALSE, fraction |-> 0, normal |-> "none"]
HitAt(fraction, normal) == [hit |-> TRUE, fraction |-> fraction, normal |-> normal]
\* the results of the sweeps of one update: k hits at distance 0 and then one more result,
\* or hits half way on one sweep or on every sweep
QuerySequences ==
  {[i \in 1..(k + 1) |-> IF i <= k THEN HitAt(0, "x") ELSE last] :
     k \in 0..maxIterations, last \in {NoHit, HitAt(FractionParts, "y"), HitAt(0, "none")}}
  \cup {[i \in 1..(k + 1) |-> IF i <= k THEN HitAt(1, "x") ELSE NoHit] : k \in {1, maxIterations}}

RECURSIVE Pow(_, _)
Pow(b, n) == IF n = 0 THEN 1 ELSE b * Pow(b, n - 1)

\* Vector3.length() of the unscaled vector; the initial velocities have whole lengths
Length(v) == CHOOSE n \in 0..(Abs(v.x) + Abs(v.y)) : n * n = v.x * v.x + v.y * v.y

\* new Projectile(position, velocity, options)
InitProjectile ==
  /\ options \in OptionSets
  /\ projectileAlive = TRUE
  /\ projectileAge = 0
  /\ bounceCount = 0
  /\ \E v \in InitialVelocities : velocity = [x |-> v[1], y |-> v[2], scalings |-> 0]
  /\ deathCause = "none"
  /\ struck = "no hit"
  /\ lastSweeps = 0
  /\ lastTimes = NoSweepYet
  /\ initialSpeed = Length(velocity)

\* the state of the projectile variables in the specifications that are not about them
ParkedProjectile ==
  /\ options = [lifetimeSeconds |-> 0, collideWithWorld |-> FALSE,
                bounceRestitution |-> [num |-> 0, den |-> 1], maxBounces |-> 0]
  /\ projectileAlive = FALSE
  /\ projectileAge = 0
  /\ bounceCount = 0
  /\ velocity = [x |-> 0, y |-> 0, scalings |-> 0]
  /\ deathCause = "none"
  /\ struck = "no hit"
  /\ lastSweeps = 0
  /\ lastTimes = NoSweepYet
  /\ initialSpeed = 0

\* "dist <= 1e-6", with dist the length of velocity * remaining
DistTiny(v, remaining) ==
  Length(v) * Pow(options.bounceRestitution.num, v.scalings) * remaining * PerEpsilon
    <= Pow(options.bounceRestitution.den, v.scalings)

\* tryGetWorldNormal makes the normal oppose the motion, and "if (vn < 0)
\* velocity.addScaledVector(hitNormal, -2 * vn)" then turns the part of the
\* velocity along it
ReflectAbsorbing(v, normal) ==
  IF normal = "x" THEN [v EXCEPT !.x = 0] ELSE [v EXCEPT !.y = 0]
Reflect(v, normal) ==
  IF normal = "x" THEN [v EXCEPT !.x = -v.x] ELSE [v EXCEPT !.y = -v.y]

\* velocity.multiplyScalar(bounceRestitution)
Scale(v) == [v EXCEPT !.scalings = @ + 1]

BudgetExhaustedAtMax(count) == options.maxBounces > 0 /\ count >= options.maxBounces
\* "this.options.maxBounces > 0 && this.bounceCount > this.options.maxBounces"
BudgetExhausted(count) == options.maxBounces > 0 /\ count > options.maxBounces

\* "while (remaining > 1e-6 && iterations++ < maxIterations)": the loop from its
\* iteration number iterations + 1 on, with the query results still to come
\* "tHit = dist > 0 ? (travelDist / dist) * remaining : 0"
TimeToHit(result, remaining) == (result.fraction * remaining) \div FractionParts

NudgedUnclamped(remaining) == remaining - ProgressNudge
\* "remaining = Math.max(0, remaining - 1e-5)"
Nudged(remaining) == Max(0, remaining - ProgressNudge)

\* st with one more value of "remaining"
Remains(st, remaining) == [st EXCEPT !.remaining = Append(@, remaining)]

RECURSIVE Sweep(_, _, _, _, _)
Sweep(iterations, remaining, canCollide, queries, st) ==
  IF ~(remaining * PerEpsilon > 1 /\ iterations < maxIterations)
    THEN [st EXCEPT !.sweeps = iterations]
  ELSE IF ~canCollide \/ DistTiny(st.velocity, remaining)
    THEN [st EXCEPT !.sweeps = iterations + 1, !.moved = @ + remaining]
  ELSE
    LET result == queries[iterations + 1]
        tHit == TimeToHit(result, remaining)
        afterHit == Max(0, remaining - tHit)
        atHit == Remains([st EXCEPT !.moved = @ + tHit], afterHit)
    IN IF ~result.hit
         THEN [st EXCEPT !.sweeps = iterations + 1, !.moved = @ + remaining]
       ELSE IF ~(options.bounceRestitution.num > 0) \/ result.normal = "none"
         THEN [atHit EXCEPT !.alive = FALSE, !.cause = "collision", !.struck = result.normal,
                            !.sweeps = iterations + 1]
       ELSE
         LET bounced == [atHit EXCEPT !.velocity = Scale(Reflect(@, result.normal)),
                                      !.bounceCount = @ + 1]
         IN IF BudgetExhausted(bounced.bounceCount)
              THEN [bounced EXCEPT !.alive = FALSE, !.cause = "budget",
                                   !.struck = result.normal, !.sweeps = iterations + 1]
              ELSE Sweep(iterations + 1, Nudged(afterHit), canCollide, queries,
                         Remains(bounced, Nudged(afterHit)))

LifetimeExpiredAtZeroToo(age) == age >= options.lifetimeSeconds
\* "this.options.lifetimeSeconds > 0 && this.ageSeconds >= this.options.lifetimeSeconds"
LifetimeExpired(age) == options.lifetimeSeconds > 0 /\ age >= options.lifetimeSeconds

\* Projectile.update({dt, camera, collisionMeshes}) on a projectile that is alive
ProjectileUpdate(dt, meshes, queries) ==
  /\ projectileAlive
  /\ projectileAge + dt <= MaxProjectileAge
  /\ projectileAge' = projectileAge + dt
  /\ IF LifetimeExpired(projectileAge')
       THEN /\ projectileAlive' = FALSE
            /\ deathCause' = "lifetime"
            /\ lastSweeps' = 0
            /\ lastTimes' = NoSweepYet
            /\ UNCHANGED <<bounceCount, velocity, struck>>
       ELSE \E swept \in {Sweep(0, dt, options.collideWithWorld /\ meshes, queries,
                                  [alive |-> TRUE, cause |-> "none", velocity |-> velocity,
                                   bounceCount |-> bounceCount, struck |-> "no hit",
                                   sweeps |-> 0, remaining |-> <<dt>>, moved |-> 0])} :
              /\ projectileAlive' = swept.alive
              /\ deathCause' = swept.cause
              /\ struck' = swept.struck
              /\ velocity' = swept.velocity
              /\ bounceCount' = swept.bounceCount
              /\ lastSweeps' = swept.sweeps
              /\ lastTimes' = [remaining |-> swept.remaining, moved |-> swept.moved]
  /\ UNCHANGED <<options, initialSpeed>>
  /\ UNCHANGED notProjectile

\* "if (!this.alive) return"
ProjectileUpdateDead(dt) ==
  /\ ~projectileAlive
  /\ lastSweeps /= 0
  /\ lastSweeps' = 0
  /\ lastTimes' = NoSweepYet
  /\ UNCHANGED <<options, projectileAlive, projectileAge, bounceCount, velocity, deathCause,
                 struck, initialSpeed>>
  /\ UNCHANGED notProjectile

NextProjectile ==
  \/ \E dt \in ProjectileDts, meshes \in BOOLEAN, queries \in QuerySequences :
        ProjectileUpdate(dt, meshes, queries)
  \/ \E dt \in ProjectileDts : ProjectileUpdateDead(dt)

(***************************************************************************)
(* Ground handling of the player (src/src/Game.ts) and of an enemy         *)
(* (src/unnamed/part_007): the vertical part of one movement update        *)
(*                                                                         *)
(* Heights are in units of 0.005 and time in units of 0.025 s, so vertical *)
(* speed is in units of 0.2 m/s and gravity (32 m/s^2) takes 4 speed units *)
(* per time unit. The map has one surface under each spot; the horizontal  *)
(* part of a move takes the agent to a spot whose surface height is an     *)
(* input of the update. What decides a slide besides the ground (keys,     *)
(* timer, horizontal speed) and whether a jump is requested are inputs.    *)
(***************************************************************************)
\* --- program constants, in model units
playerHeight == 340        \* 1.7
slideHeight == 180         \* 0.9
GroundTolerance == 20      \* 0.1: "dist <= currentHeight + 0.1"
GroundRayReach == 100      \* 0.5: groundRaycaster.far = height + 0.5
gravity == 4               \* 32 m/s^2
jumpVelocity == 55         \* 11 m/s
SlideJumpVelocity == 77    \* jumpVelocity * slideJumpBoost, 15.4 m/s
coyoteTime == 6            \* 0.15 s
jumpBufferTime == 6        \* 0.15 s
JumpVelocityCeiling == 1   \* "velocity.y <= 0.1", in tenths of a m/s
TenthsPerSpeedUnit == 2    \* 0.2 m/s / 0.1 m/s
EnemySpawnY == 600         \* 3.0, the y of the enemy positions of the levels
HeightUnitsPerCombatUnit == 2   \* 0.01 / 0.005
EnemyGroundHeight == HeightUnitsPerCombatUnit * enemyHeight

GroundDts == {ClampedDt}
\* surface heights of the map: the level of the fallback floor, a step lower than
\* the probe tolerance, a step higher than it
Surfaces == {0, 10, 100}
Agents == {"player", "enemy"}

\* Math.pow(0.001, dt), in thousandths: 0.841 for 0.025 s, 0.708 for 0.05 s
HeightKeptPerMille(dt) == IF dt = 1 THEN 841 ELSE 708

\* THREE.MathUtils.lerp(height, target, 1 - Math.pow(0.001, dt))
HeightLerp(height, target, dt) ==
  LET kept == (Abs(height - target) * HeightKeptPerMille(dt)) \div 1000
  IN  IF height >= target THEN target + kept ELSE target - kept

NoGround == [grounded |-> FALSE, groundY |-> 0]

\* the downward ray of checkGround from height y: the distance to the surface, when
\* the surface is under the ray origin and within raycaster.far
RayHits(y, surface, far) == y - surface >= 0 /\ y - surface <= far

\* Game.ts checkGround(pos), with the currentHeight of the moment of the call
CheckGround(y, height, surface, meshes) ==
  IF /\ meshes
     /\ RayHits(y, surface, playerHeight + GroundRayReach)
     /\ y - surface <= height + GroundTolerance
    THEN [grounded |-> TRUE, groundY |-> y - (y - surface)]
    ELSE IF y <= height + GroundTolerance
           THEN [grounded |-> TRUE, groundY |-> 0]
           ELSE NoGround

\* Enemy.checkGround(pos, collisionMeshes)
EnemyCheckGround(y, surface, meshes) ==
  IF /\ meshes
     /\ RayHits(y, surface, EnemyGroundHeight + GroundRayReach)
     /\ y - surface <= EnemyGroundHeight + GroundTolerance
    THEN [grounded |-> TRUE, groundY |-> surface]
    ELSE NoGround

InitGround ==
  /\ agent \in Agents
  /\ collisionMeshes = FALSE
  /\ surfaceY \in Surfaces
  /\ velocityY = 0
  /\ sliding = FALSE
  /\ timeSinceGrounded = 0
  /\ IF agent = "player"
       THEN /\ positionY = playerHeight
            /\ currentHeight = playerHeight
            /\ grounded = TRUE
            /\ groundFound = CheckGround(playerHeight, playerHeight, surfaceY, FALSE)
            /\ floorClamped = FALSE
       ELSE /\ positionY = EnemySpawnY
            /\ currentHeight = EnemyGroundHeight
            /\ grounded = FALSE
            /\ groundFound = NoGround
            /\ floorClamped = FALSE

\* the state of the ground variables in the specifications that are not about them
ParkedGround ==
  /\ agent = "player"
  /\ collisionMeshes = FALSE
  /\ surfaceY = 0
  /\ velocityY = 0
  /\ sliding = FALSE
  /\ timeSinceGrounded = 0
  /\ positionY = playerHeight
  /\ currentHeight = playerHeight
  /\ grounded = TRUE
  /\ groundFound = [grounded |-> TRUE, groundY |-> 0]
  /\ floorClamped = FALSE

\* "if (pos.y < targetY) { pos.y = targetY; if (velocity.y < 0) velocity.y = 0 }" of
\* the ground check and of the final ground clamp, for the result of a checkGround call
ClampFires(check, y, height) == check.grounded /\ y < check.groundY + height
SnapUp(check, y, v, height) ==
  IF ClampFires(check, y, height)
    THEN [y |-> check.groundY + height, v |-> Max(v, 0)]
    ELSE [y |-> y, v |-> v]

FloorUpKeepingSpeed(floors, y, v, height) ==
  IF floors THEN [y |-> height, v |-> v] ELSE [y |-> y, v |-> v]
\* the "Fallback floor" step for a floor at the agent's height
FloorUp(floors, y, v, height) ==
  IF floors THEN [y |-> height, v |-> Max(v, 0)] ELSE [y |-> y, v |-> v]

\* "const canJump = grounded || timeSinceGrounded < coyoteTime"
CanJump(isGrounded, air) == isGrounded \/ air < coyoteTime

JumpBeginsAtAnySpeed(wants, buffered, isGrounded, air, tenths) ==
  (wants \/ buffered > 0) /\ CanJump(isGrounded, air)
\* "if ((wantJump || jumpBuffered > 0) && canJump && velocity.y <= 0.1)", with
\* velocity.y in tenths of a m/s
JumpBegins(wants, buffered, isGrounded, air, tenths) ==
  (wants \/ buffered > 0) /\ CanJump(isGrounded, air) /\ tenths <= JumpVelocityCeiling
\* the ground steps of the player's part of animate(): ground check, slide, height
\* transition, jump, gravity, move, final ground clamp, fallback floor
PlayerGroundUpdate(dt, jumpRequested, slideStart, slideStop, surface) ==
  /\ agent = "player"
  /\ \E groundCheck \in {CheckGround(positionY, currentHeight, surfaceY, collisionMeshes)} :
     \E start \in {SnapUp(groundCheck, positionY, velocityY, currentHeight)} :
     \E air \in {IF groundCheck.grounded THEN 0
                 ELSE Min(timeSinceGrounded + dt, coyoteTime)} :
     \E slides \in {IF slideStart /\ groundCheck.grounded /\ ~sliding THEN TRUE
                    ELSE IF sliding /\ (slideStop \/ ~groundCheck.grounded) THEN FALSE
                    ELSE sliding} :
     \E height \in {HeightLerp(currentHeight,
                               IF slides THEN slideHeight ELSE playerHeight, dt)} :
     \* jumpRequested stands for "wantJump || jumpBuffered > 0"
     \E jumps \in {JumpBegins(jumpRequested, 0, groundCheck.grounded, air,
                              TenthsPerSpeedUnit * start.v)} :
     \E jumped \in {IF jumps THEN (IF slides THEN SlideJumpVelocity ELSE jumpVelocity)
                    ELSE start.v} :
     \E v \in {IF groundCheck.grounded /\ ~jumps THEN jumped ELSE jumped - gravity * dt} :
     \E y \in {start.y + v * dt} :
     \E finalGround \in {CheckGround(y, height, surface, collisionMeshes)} :
     \E clamped \in {SnapUp(finalGround, y, v, height)} :
     \E floors \in {clamped.y < height} :
     \E end \in {FloorUp(floors, clamped.y, clamped.v, height)} :
       /\ positionY' = end.y
       /\ velocityY' = end.v
       /\ grounded' = \/ groundCheck.grounded /\ ~jumps
                      \/ ClampFires(finalGround, y, height)
                      \/ floors
       /\ sliding' = (slides /\ ~jumps)
       /\ currentHeight' = height
       /\ timeSinceGrounded' = (IF jumps THEN coyoteTime ELSE air)
       /\ surfaceY' = surface
       /\ groundFound' = (IF floors THEN [grounded |-> TRUE, groundY |-> 0]
                          ELSE finalGround)
       /\ floorClamped' = (ClampFires(finalGround, y, height) \/ floors)
  /\ UNCHANGED <<agent, collisionMeshes>>
  /\ UNCHANGED notGround

\* the ground steps of Enemy.update: ground check, gravity, move, final ground clamp,
\* fallback floor
EnemyGroundUpdate(dt, surface) ==
  /\ agent = "enemy"
  /\ \E groundCheck \in {EnemyCheckGround(positionY, surfaceY, collisionMeshes)} :
     \E start \in {SnapUp(groundCheck, positionY, velocityY, EnemyGroundHeight)} :
     \E v \in {IF groundCheck.grounded THEN start.v ELSE start.v - gravity * dt} :
     \E y \in {start.y + v * dt} :
     \E finalGround \in {EnemyCheckGround(y, surface, collisionMeshes)} :
     \E clamped \in {SnapUp(finalGround, y, v, EnemyGroundHeight)} :
     \E floors \in {~collisionMeshes /\ clamped.y < EnemyGroundHeight} :
     \E end \in {FloorUp(floors, clamped.y, clamped.v, EnemyGroundHeight)} :
       /\ positionY' = end.y
       /\ velocityY' = end.v
       /\ grounded' = \/ groundCheck.grounded
                      \/ ClampFires(finalGround, y, EnemyGroundHeight)
                      \/ floors
       /\ surfaceY' = surface
       /\ groundFound' = (IF floors THEN [grounded |-> TRUE, groundY |-> 0]
                          ELSE finalGround)
       /\ floorClamped' = (ClampFires(finalGround, y, EnemyGroundHeight) \/ floors)
  /\ UNCHANGED <<agent, collisionMeshes, sliding, currentHeight, timeSinceGrounded>>
  /\ UNCHANGED notGround

\* the map finishes loading: its meshes are pushed to collisionMeshes
MapLoaded ==
  /\ ~collisionMeshes
  /\ collisionMeshes' = TRUE
  /\ UNCHANGED <<agent, positionY, velocityY, grounded, sliding, currentHeight,
                 timeSinceGrounded, surfaceY, groundFound, floorClamped>>
  /\ UNCHANGED notGround

NextGround ==
  \/ \E dt \in GroundDts, jumpRequested \in BOOLEAN, slideStart \in BOOLEAN,
        slideStop \in BOOLEAN, surface \in Surfaces :
        PlayerGroundUpdate(dt, jumpRequested, slideStart, slideStop, surface)
  \/ \E dt \in GroundDts, surface \in Surfaces : EnemyGroundUpdate(dt, surface)
  \/ MapLoaded


(***************************************************************************)
(* The orb attack of an enemy (src/unnamed/part_007, lines 27-37, 155-169, *)
(* 322-362)                                                                *)
(*                                                                         *)
(* Time is in units of 0.025 s and lengths in units of 0.25. The player's  *)
(* position is given as its offset <<x, y, z>> from the enemy, an input of *)
(* every update. A direction is a vector in units of 1/20.                 *)
(*                                                                         *)
(* Enemy reads its clock only in "time - orbChargeStartTime >= 3.0" and    *)
(* "time - lastOrbAttackTime >= 6.0". The model keeps these two            *)
(* differences instead of the three time stamps, each counted up to the    *)
(* value it is compared with: chargeElapsed (0 while not charging, when it *)
(* is not read) and sinceLastAttack.                                       *)
(***************************************************************************)
\* --- program constants, in model units
orbChargeDurationSeconds == 120   \* 3.0 s
orbCooldownSeconds == 240         \* 6.0 s
orbPreferredDistance == 16        \* 4.0
orbPreferredWindow == 4           \* 1.0
PausedDistance == 3               \* "distance > 0.75"
DetectDistance == 60              \* "distance < 15.0"
LoseDistance == 100               \* "distance > 25.0"
DirUnit == 20                     \* a component 1 of a unit vector

OrbDts == {ClampedDt}
\* the player at the enemy's own position (a paused enemy), 4 away, 3 away and 4
\* above, 30 away
Offsets == {<<0, 0, 0>>, <<16, 0, 0>>, <<12, 16, 0>>, <<0, 0, -120>>}
DefaultShotDir == <<0, 0, -DirUnit>>     \* orbShotDir.set(0, 0, -1)
NoDir == <<0, 0, 0>>                     \* new THREE.Vector3()

\* Vector3.length(); the offsets have whole lengths
VectorLength(v) ==
  CHOOSE n \in 0..(Abs(v[1]) + Abs(v[2]) + Abs(v[3])) :
    n * n = v[1] * v[1] + v[2] * v[2] + v[3] * v[3]

\* "toPlayer.set(playerPosition.x - pos.x, 0, playerPosition.z - pos.z)" and its length
HorizontalDistance(offset) == VectorLength(<<offset[1], 0, offset[3]>>)

\* Vector3.normalize()
UnitVector(v) ==
  [i \in 1..3 |-> (v[i] * DirUnit) \div VectorLength(v)]

\* "if (orbShotDir.lengthSq() > 1e-6) orbShotDir.normalize() else orbShotDir.set(0, 0, -1)"
ShotDirection(offset) ==
  IF VectorLength(offset) > 0 THEN UnitVector(offset) ELSE DefaultShotDir

NewShooter(type, state) ==
  [type |-> type, alive |-> TRUE, state |-> state,
   orbCharging |-> FALSE, chargeElapsed |-> 0,
   \* lastOrbAttackTime = -999: the cooldown has elapsed
   sinceLastAttack |-> orbCooldownSeconds,
   orbChargeStartedEvent |-> FALSE, orbShotEvent |-> FALSE, orbShotDir |-> NoDir]

\* the update time between two shots that the cooldown and the charge add up to
ShotGap == orbCooldownSeconds + orbChargeDurationSeconds
NoShotSeen == [sinceShot |-> ShotGap, gap |-> ShotGap, fired |-> 0]

NothingSeen ==
  [call |-> "new", offset |-> <<0, 0, 0>>, chargeOffset |-> <<0, 0, 0>>, shots |-> 0,
   polled |-> NoDir]

InitOrb ==
  /\ \E type \in {0, 1}, state \in {"idle", "pursuing"} : shooter = NewShooter(type, state)
  /\ shooterSeen = NothingSeen
  /\ shotClock = NoShotSeen

\* the state of the orb variables in the specifications that are not about them
ParkedOrb ==
  /\ shooter = NewShooter(1, "idle")
  /\ shooterSeen = NothingSeen
  /\ shotClock = NoShotSeen

\* the "State transitions" of Enemy.update
StateAfterSingleThreshold(state, distance) ==
  IF state = "idle" /\ distance < DetectDistance THEN "pursuing"
  ELSE IF state = "pursuing" /\ distance > DetectDistance THEN "idle"
  ELSE state
StateAfter(state, distance) ==
  IF state = "idle" /\ distance < DetectDistance THEN "pursuing"
  ELSE IF state = "pursuing" /\ distance > LoseDistance THEN "idle"
  ELSE state

\* canStartCharge, with this.time already advanced
CanStartChargeWithoutCooldown(e, sinceAttack, distance) ==
  /\ ~e.orbCharging
  /\ distance > PausedDistance
  /\ Abs(distance - orbPreferredDistance) <= orbPreferredWindow

CanStartCharge(e, sinceAttack, distance) ==
  /\ ~e.orbCharging
  /\ distance > PausedDistance
  /\ Abs(distance - orbPreferredDistance) <= orbPreferredWindow
  /\ sinceAttack >= orbCooldownSeconds

ChargeCompleteLate(elapsed) == elapsed > orbChargeDurationSeconds
\* "elapsed >= this.orbChargeDurationSeconds"
ChargeComplete(elapsed) == elapsed >= orbChargeDurationSeconds

\* the part of Enemy.update(params) that drives the orb attack: the clock, the state
\* transitions and the orb attack state machine
OrbStep(dt, offset) ==
  \E sinceAttack \in {Min(shooter.sinceLastAttack + dt, orbCooldownSeconds)} :
  \E distance \in {HorizontalDistance(offset)} :
  \E state \in {StateAfter(shooter.state, distance)} :
  \E runs \in {shooter.type = 0 /\ shooter.alive /\ state = "pursuing"} :
  \E starts \in {runs /\ CanStartCharge(shooter, sinceAttack, distance)} :
  \E elapsed \in {IF starts \/ ~shooter.orbCharging THEN 0
                  ELSE Min(shooter.chargeElapsed + dt, orbChargeDurationSeconds)} :
  \E fires \in {/\ runs
                /\ shooter.orbCharging \/ starts
                /\ ChargeComplete(elapsed)} :
    /\ shooter' = [shooter EXCEPT
         !.state = state,
         !.orbCharging = IF fires THEN FALSE ELSE (shooter.orbCharging \/ starts),
         !.chargeElapsed = IF fires THEN 0 ELSE elapsed,
         !.orbChargeStartedEvent = (shooter.orbChargeStartedEvent \/ starts),
         !.sinceLastAttack = IF fires THEN 0 ELSE sinceAttack,
         !.orbShotDir = IF fires THEN ShotDirection(offset) ELSE shooter.orbShotDir,
         !.orbShotEvent = (shooter.orbShotEvent \/ fires)]
    /\ shooterSeen' = [shooterSeen EXCEPT
         !.call = "update",
         !.offset = offset,
         !.chargeOffset = IF starts THEN offset ELSE shooterSeen.chargeOffset,
         !.shots = (IF starts THEN 0 ELSE shooterSeen.shots) + (IF fires THEN 1 ELSE 0)]
    /\ UNCHANGED notOrb

\* Enemy.update(params) as far as the orb attack goes
OrbUpdate(dt, offset) == OrbStep(dt, offset) /\ UNCHANGED shotClock

\* Enemy.kill(), for the fields kept here
OrbKill ==
  /\ shooter.alive
  /\ shooter' = [shooter EXCEPT !.alive = FALSE, !.state = "dying"]
  /\ shooterSeen' = [shooterSeen EXCEPT !.call = "kill"]
  /\ UNCHANGED shotClock
  /\ UNCHANGED notOrb

\* Enemy.consumeOrbShotDirection()
ConsumeOrbShotDirection ==
  /\ shooter' = [shooter EXCEPT !.orbShotEvent = FALSE]
  /\ shooterSeen' = [shooterSeen EXCEPT
       !.call = "consumeOrbShotDirection",
       !.polled = IF shooter.orbShotEvent THEN shooter.orbShotDir ELSE NoDir]
  /\ UNCHANGED shotClock
  /\ UNCHANGED notOrb

\* Enemy.consumeOrbChargeStartedEvent()
ConsumeOrbChargeStartedEvent ==
  /\ shooter.orbChargeStartedEvent
  /\ shooter' = [shooter EXCEPT !.orbChargeStartedEvent = FALSE]
  /\ shooterSeen' = [shooterSeen EXCEPT !.call = "consumeOrbChargeStartedEvent"]
  /\ UNCHANGED shotClock
  /\ UNCHANGED notOrb

NextOrb ==
  \/ \E dt \in OrbDts, offset \in Offsets : OrbUpdate(dt, offset)
  \/ OrbKill
  \/ ConsumeOrbShotDirection
  \/ ConsumeOrbChargeStartedEvent

(***************************************************************************)
(* The jump step of the player's tick (src/src/Game.ts, lines 579-595)     *)
(*                                                                         *)
(* The step is applied to every state the rest of the tick can hand it.    *)
(* Time is in units of 0.025 s, speed in tenths of a m/s; of the           *)
(* horizontal velocity the model keeps the speed.                          *)
(***************************************************************************)
SlideJumpBoostNum == 14    \* slideJumpBoost = 1.4
SlideJumpBoostDen == 10

\* the player's fields before a jump step: the ground check has set timeSinceGrounded
\* to 0 if grounded and has added dt to it otherwise, the slide logic has ended a
\* slide off the ground, the jump buffer has counted down (dt may take it below 0)
JumpStates ==
  {j \in [wantJump : BOOLEAN, jumpBuffered : {-1, 0, 2, jumpBufferTime},
          grounded : BOOLEAN, timeSinceGrounded : {0, 2, 5, coyoteTime, 8},
          velocityY : {-16, 0, JumpVelocityCeiling, 2, 110},
          sliding : BOOLEAN, speed : {0, 280}] :
     /\ j.grounded <=> j.timeSinceGrounded = 0
     /\ j.sliding => j.grounded}

\* the state the constructor leaves
NoJumpYet ==
  [wantJump |-> FALSE, jumpBuffered |-> 0, grounded |-> TRUE, timeSinceGrounded |-> 0,
   velocityY |-> 0, sliding |-> FALSE, speed |-> 0]

\* "Coyote time jump"
JumpStep(j) ==
  IF JumpBegins(j.wantJump, j.jumpBuffered, j.grounded, j.timeSinceGrounded, j.velocityY)
    THEN [j EXCEPT
            !.velocityY = IF j.sliding
                            THEN (TenthsPerSpeedUnit * jumpVelocity * SlideJumpBoostNum)
                                   \div SlideJumpBoostDen
                            ELSE TenthsPerSpeedUnit * jumpVelocity,
            !.speed = IF j.sliding THEN (j.speed * SlideJumpBoostNum) \div SlideJumpBoostDen
                      ELSE j.speed,
            !.grounded = FALSE,
            !.sliding = FALSE,
            !.timeSinceGrounded = coyoteTime,
            !.jumpBuffered = 0]
    ELSE j

InitJump ==
  /\ jump = NoJumpYet
  /\ jumpBefore = NoJumpYet

\* the state of the jump variables in the specifications that are not about them
ParkedJump ==
  /\ jump = NoJumpYet
  /\ jumpBefore = NoJumpYet

\* one tick: the steps before the jump hand it the state j
JumpTick(j) ==
  /\ jumpBefore' = j
  /\ jump' = JumpStep(j)
  /\ UNCHANGED notJump

NextJump == \E j \in JumpStates : JumpTick(j)

(***************************************************************************)
(* The horizontal movement of the player's tick: slide, friction and       *)
(* acceleration (src/src/Game.ts, lines 549-573 and 597-651)               *)
(*                                                                         *)
(* Of the horizontal velocity the model keeps the component along the      *)
(* axis of the forward and backward keys, in units of 0.01 m/s; time is    *)
(* in units of 0.025 s.  The ground probe's answer and the outcome of the  *)
(* jump step, which depend on the vertical state, are inputs of a tick.    *)
(***************************************************************************)
TicksPerSecond == 40
walkSpeed == 1200
sprintSpeed == 2000
slideSpeed == 2800
slideMinSpeed == 800
slideDuration == 32        \* 0.8 s
slideFriction == 4
airSpeed == 400
groundAccel == 80
airAccel == 35
friction == 12
FrictionFloor == 10        \* "speed > 0.1"
SlideSteerNum == 2         \* "groundAccel * 0.2"
SlideSteerDen == 10

MoveDts == {ClampedDt}

\* the wish direction along the axis: backward, none, forward
WishDirs == {-1, 0, 1}

Sign(a) == IF a > 0 THEN 1 ELSE IF a < 0 THEN -1 ELSE 0

NewMover == [velocity |-> 0, sliding |-> FALSE, slideTimer |-> 0]

NoTickSeen ==
  [dt |-> 0, horizontalSpeed |-> 0, wantCrouch |-> FALSE, sprinting |-> FALSE,
   grounded |-> TRUE, jumped |-> FALSE, wasSliding |-> FALSE, timerBefore |-> 0,
   wish |-> 0, maxSpeed |-> walkSpeed, accel |-> groundAccel, beforeAccelerate |-> 0]

InitMove ==
  /\ mover = NewMover
  /\ moverSeen = NoTickSeen

\* the state of the movement variables in the specifications that are not about them
ParkedMove ==
  /\ mover = NewMover
  /\ moverSeen = NoTickSeen

SlideStartsAtWalkSpeed(wantCrouch, sprinting, isGrounded, isSliding, horizontalSpeed) ==
  wantCrouch /\ sprinting /\ isGrounded /\ ~isSliding /\ horizontalSpeed >= walkSpeed
\* "Start slide: sprinting + crouch + grounded + fast enough"
SlideStarts(wantCrouch, sprinting, isGrounded, isSliding, horizontalSpeed) ==
  wantCrouch /\ sprinting /\ isGrounded /\ ~isSliding /\ horizontalSpeed > walkSpeed

\* "End slide conditions", with the timer already counted down
SlideEnds(wantCrouch, timer, isGrounded, horizontalSpeed) ==
  ~wantCrouch \/ timer <= 0 \/ horizontalSpeed < slideMinSpeed \/ ~isGrounded

\* "Determine max speed and acceleration"
MaxSpeedFor(isGrounded, isSliding, sprinting) ==
  IF ~isGrounded THEN airSpeed
  ELSE IF isSliding THEN slideSpeed
  ELSE IF sprinting THEN sprintSpeed ELSE walkSpeed

AccelFor(isGrounded, isSliding) ==
  IF ~isGrounded THEN airAccel
  ELSE IF isSliding THEN (groundAccel * SlideSteerNum) \div SlideSteerDen
  ELSE groundAccel

\* "Apply friction": the velocity scaled by max(speed - speed * k * dt, 0) / speed
Slowed(v, k, dt) ==
  Sign(v) * Max(Abs(v) - (Abs(v) * k * dt) \div TicksPerSecond, 0)

AfterFriction(v, isGrounded, isSliding, dt) ==
  IF isGrounded /\ ~isSliding
    THEN IF Abs(v) > FrictionFloor THEN Slowed(v, friction, dt) ELSE 0
  ELSE IF isSliding
    THEN IF Abs(v) > FrictionFloor THEN Slowed(v, slideFriction, dt) ELSE v
  ELSE v

\* "accel * dt * maxSpeed"
AccelBudget(accel, dt, maxSpeed) == (accel * dt * maxSpeed) \div TicksPerSecond

AccelAmountUncapped(v, wish, maxSpeed, accel, dt) == AccelBudget(accel, dt, maxSpeed)
\* "Math.min(accel * dt * maxSpeed, addSpeed)"
AccelAmount(v, wish, maxSpeed, accel, dt) ==
  Min(AccelBudget(accel, dt, maxSpeed), Max(0, maxSpeed - v * wish))

\* "Accelerate"
Accelerate(v, wish, isSliding, maxSpeed, accel, dt) ==
  IF wish /= 0 /\ ~isSliding
    THEN v + wish * AccelAmount(v, wish, maxSpeed, accel, dt)
    ELSE v

\* one tick of the player with the pointer locked: probe is the ground check's answer,
\* jumps the outcome of the jump condition
MoveTick(dt, wantCrouch, sprinting, probe, jumps, wish) ==
  \E horizontalSpeed \in {Abs(mover.velocity)} :
  \E starts \in {SlideStarts(wantCrouch, sprinting, probe, mover.sliding,
                             horizontalSpeed)} :
  \E boosted \in {IF starts /\ horizontalSpeed > 0
                    THEN Sign(mover.velocity) * slideSpeed
                    ELSE mover.velocity} :
  \E counted \in {IF mover.sliding \/ starts
                    THEN (IF starts THEN slideDuration ELSE mover.slideTimer) - dt
                    ELSE mover.slideTimer} :
  \E ends \in {(mover.sliding \/ starts)
                 /\ SlideEnds(wantCrouch, counted, probe, horizontalSpeed)} :
  \E slides \in {(mover.sliding \/ starts) /\ ~ends} :
  \E jumpedV \in {IF jumps /\ slides
                    THEN Sign(boosted) * ((Abs(boosted) * SlideJumpBoostNum)
                                             \div SlideJumpBoostDen)
                    ELSE boosted} :
  \E isGrounded \in {probe /\ ~jumps} :
  \E isSliding \in {slides /\ ~jumps} :
  \E maxSpeed \in {MaxSpeedFor(isGrounded, isSliding, sprinting)} :
  \E accel \in {AccelFor(isGrounded, isSliding)} :
  \E slowed \in {AfterFriction(jumpedV, isGrounded, isSliding, dt)} :
    /\ mover' = [velocity |-> Accelerate(slowed, wish, isSliding, maxSpeed, accel, dt),
                 sliding |-> isSliding,
                 slideTimer |-> IF ends THEN 0 ELSE counted]
    /\ moverSeen' = [dt |-> dt, horizontalSpeed |-> horizontalSpeed,
                     wantCrouch |-> wantCrouch, sprinting |-> sprinting,
                     grounded |-> probe, jumped |-> jumps,
                     wasSliding |-> mover.sliding, timerBefore |-> mover.slideTimer,
                     wish |-> wish, maxSpeed |-> maxSpeed, accel |-> accel,
                     beforeAccelerate |-> slowed]
    /\ UNCHANGED notMove

NextMove ==
  \E dt \in MoveDts, wantCrouch \in BOOLEAN, sprinting \in BOOLEAN, probe \in BOOLEAN,
     jumps \in BOOLEAN, wish \in WishDirs :
    MoveTick(dt, wantCrouch, sprinting, probe, jumps, wish)

(***************************************************************************)
(* A type-1 enemy: state transitions, horizontal movement and the beam     *)
(* attack of Enemy.update (src/unnamed/part_007, lines 298-508)            *)
(*                                                                         *)
(* Time is in units of 0.025 s, lengths in units of 0.25 and speed in      *)
(* units of 0.005 m/s. The player's position is given as its signed offset *)
(* from the enemy along one horizontal axis, an input of every update, so  *)
(* of the enemy's position the model keeps the displacement of the latest  *)
(* update. The time stamps of the code are kept as the time elapsed since  *)
(* lastAttackTime, which is also the time since attackStartTime while      *)
(* isAttacking. The frame loop removes a type-1 enemy from the enemies     *)
(* array in the frame it is hit, so update runs on an alive enemy.         *)
(***************************************************************************)
moveSpeed == 1200            \* 6 m/s
AirControlPerTick == 3       \* moveSpeed * 0.1 * dt for one unit of time
enemyFriction == 8           \* friction = 8
EnemyFrictionFloor == 20     \* "speed > 0.1"
TankDesiredDistance == 6     \* desiredDistance 1.5, buffer 0
AttackRange == 32            \* "attackDistance < 8.0"
AttackCooldown == 80         \* "this.time - this.lastAttackTime > 2.0"
attackPreparationTime == 32  \* 0.8 s
attackDuration == 60         \* 1.5 s
UnitLength == 4              \* the length 1 of the normalised toPlayer

TankDts == {1, ClampedDt}
\* the player: at the enemy's position, closer than the detection distance on either
\* side, at the detection distance, at and beyond the distance where pursuit is given up
TankOffsets == {0, 20, -20, DetectDistance, LoseDistance, LoseDistance + 4}
\* the enemy stands on the floor of the arena in every update
TankGrounded == {TRUE}

NewTank(state) ==
  [alive |-> TRUE, state |-> state, velocity |-> 0, isAttacking |-> FALSE,
   sinceLastAttack |-> 0, attacks |-> <<>>]

NoTankUpdateSeen ==
  [call |-> "new", offset |-> 0, displacement |-> 0, wasAttacking |-> FALSE,
   spawns |-> 0]

InitTank ==
  /\ \E state \in {"idle", "pursuing"} : tank = NewTank(state)
  /\ tankSeen = NoTankUpdateSeen

\* the state of the tank variables in the specifications that are not about them
ParkedTank ==
  /\ tank = NewTank("idle")
  /\ tankSeen = NoTankUpdateSeen

\* "State-based behavior" of an alive type-1 enemy: the horizontal velocity
TankVelocity(v, state, distance, dir, onGround, dt) ==
  IF state = "pursuing"
    THEN IF distance > TankDesiredDistance
           THEN IF onGround THEN dir * moveSpeed ELSE v + dir * AirControlPerTick * dt
           ELSE IF onGround THEN 0 ELSE v
    ELSE IF onGround
           THEN IF Abs(v) > EnemyFrictionFloor THEN Slowed(v, enemyFriction, dt) ELSE 0
           ELSE v

\* "const attackDistance = this.toPlayer.length()": the approach branch has scaled
\* toPlayer to length 1 by then
AttackDistance(state, distance) ==
  IF state = "pursuing" /\ distance > TankDesiredDistance THEN UnitLength ELSE distance

\* "Check if tank should attack"
AttackStarts(state, isAttacking, distance, sinceAttack) ==
  /\ state = "pursuing" /\ ~isAttacking
  /\ AttackDistance(state, distance) < AttackRange
  /\ sinceAttack > AttackCooldown

BeamSpawnsEveryTick(attacking, elapsed, attacks) ==
  attacking /\ elapsed >= attackPreparationTime
\* "Shoot laser after preparation"
BeamSpawns(attacking, elapsed, attacks) ==
  attacking /\ elapsed >= attackPreparationTime /\ Len(attacks) = 0

\* "Update existing attacks": TankAttack.update ages each beam, and a beam that is no
\* longer alive is spliced out
RECURSIVE AgedAttacks(_, _)
AgedAttacks(attacks, dt) ==
  IF attacks = <<>> THEN <<>>
  ELSE IF Head(attacks) + dt >= buildDuration
         THEN AgedAttacks(Tail(attacks), dt)
         ELSE <<Head(attacks) + dt>> \o AgedAttacks(Tail(attacks), dt)

VelocityWhenAttacking(v, attacking) == IF attacking THEN 0 ELSE v

\* Enemy.update(params) of a type-1 enemy
TankUpdate(dt, offset, onGround) ==
  /\ \E sinceAttack \in {Min(tank.sinceLastAttack + dt, AttackCooldown + 1)} :
     \E distance \in {Abs(offset)} :
     \E state \in {StateAfter(tank.state, distance)} :
     \E moving \in {IF state \in {"dying", "dead"}
                      THEN 0    \* "Dying/dead: no horizontal movement"
                      ELSE TankVelocity(tank.velocity, state, distance, Sign(offset),
                                        onGround, dt)} :
     \E starts \in {AttackStarts(state, tank.isAttacking, distance, sinceAttack)} :
     \E attacking \in {tank.isAttacking \/ starts} :
     \E elapsed \in {IF starts THEN 0 ELSE sinceAttack} :
     \E spawns \in {BeamSpawns(attacking, elapsed, tank.attacks)} :
       /\ tank' = [alive |-> tank.alive,
                   state |-> state,
                   velocity |-> VelocityWhenAttacking(moving, attacking),
                   isAttacking |-> attacking /\ ~(elapsed >= attackDuration),
                   sinceLastAttack |-> elapsed,
                   attacks |-> AgedAttacks(IF spawns THEN Append(tank.attacks, 0)
                                           ELSE tank.attacks, dt)]
       /\ tankSeen' = [call |-> "update", offset |-> offset,
                       \* "pos.x += this.velocity.x * dt"
                       displacement |-> moving * dt,
                       wasAttacking |-> tank.isAttacking,
                       spawns |-> IF starts THEN 0
                                  ELSE tankSeen.spawns + (IF spawns THEN 1 ELSE 0)]
  /\ UNCHANGED notTank

\* Enemy.kill() of part_007, for the fields kept here
TankKill ==
  /\ tank.alive
  /\ tank' = [tank EXCEPT !.alive = FALSE, !.velocity = 0, !.state = "dying"]
  /\ tankSeen' = [tankSeen EXCEPT !.call = "kill"]
  /\ UNCHANGED notTank

NextTank ==
  \E dt \in TankDts, offset \in TankOffsets, onGround \in TankGrounded :
    TankUpdate(dt, offset, onGround)

(***************************************************************************)
(* A type-0 enemy: the orb charge and the horizontal movement of           *)
(* Enemy.update (src/unnamed/part_007, lines 298-436)                      *)
(*                                                                         *)
(* Units are those of the type-1 enemy above. The player's position is its *)
(* signed offset from the enemy along one horizontal axis, and the time    *)
(* stamps of the orb attack are kept as elapsed times, as in the orb       *)
(* attack above.                                                           *)
(***************************************************************************)
ChargerDesiredDistance == 16   \* desiredDistance 4.0
ChargerBuffer == 2             \* buffer 0.5
BackOffFloor == 2              \* "distance > 0.5"

ChargerDts == {ClampedDt}
\* the player: at the enemy's position, too close (and in the charge window), far enough
\* to be approached, beyond the distance where pursuit is given up
ChargerOffsets == {0, 12, 24, LoseDistance + 4}
\* --- bounds of the model
MaxAirTicks == 1               \* consecutive updates of the enemy off the ground

NewCharger(state) ==
  [alive |-> TRUE, state |-> state, velocity |-> 0, orbCharging |-> FALSE,
   chargeElapsed |-> 0, sinceLastAttack |-> orbCooldownSeconds, airTicks |-> 0]

NoChargerCallSeen == [call |-> "new", offset |-> 0, integrated |-> 0]

InitCharger ==
  /\ \E state \in {"idle", "pursuing"} : charger = NewCharger(state)
  /\ chargerSeen = NoChargerCallSeen

\* the state of the charger variables in the specifications that are not about them
ParkedCharger ==
  /\ charger = NewCharger("idle")
  /\ chargerSeen = NoChargerCallSeen

\* "Approach", "Too close: back off a bit", "In the sweet spot: stop" and the idle
\* friction, for an enemy that is not charging
ChargerVelocityFreely(v, e, distance, dir, onGround, dt) ==
  IF e.state = "pursuing" /\ e.alive
    THEN IF distance > ChargerDesiredDistance + ChargerBuffer
           THEN IF onGround THEN dir * moveSpeed ELSE v + dir * AirControlPerTick * dt
         ELSE IF distance > BackOffFloor /\ distance < ChargerDesiredDistance - ChargerBuffer
           THEN IF onGround THEN -dir * moveSpeed ELSE v - dir * AirControlPerTick * dt
         ELSE IF onGround THEN 0 ELSE v
  ELSE IF e.state = "idle"
    THEN IF onGround
           THEN IF Abs(v) > EnemyFrictionFloor THEN Slowed(v, enemyFriction, dt) ELSE 0
           ELSE v
  ELSE 0
\* "State-based behavior" of a type-0 enemy: the horizontal velocity, e being the enemy
\* after the state transitions and the orb state machine of this update
ChargerVelocity(v, e, distance, dir, onGround, dt) ==
  IF e.state = "pursuing" /\ e.alive /\ e.orbCharging
    THEN 0   \* "Stand still during charge."
    ELSE ChargerVelocityFreely(v, e, distance, dir, onGround, dt)

\* Enemy.update(params) of a type-0 enemy
ChargerUpdate(dt, offset, onGround) ==
  /\ onGround \/ charger.airTicks < MaxAirTicks
  /\ \E sinceAttack \in {Min(charger.sinceLastAttack + dt, orbCooldownSeconds)} :
     \E distance \in {Abs(offset)} :
     \E state \in {StateAfter(charger.state, distance)} :
     \E runs \in {charger.alive /\ state = "pursuing"} :
     \E starts \in {runs /\ CanStartCharge(charger, sinceAttack, distance)} :
     \E elapsed \in {IF starts \/ ~charger.orbCharging THEN 0
                     ELSE Min(charger.chargeElapsed + dt, orbChargeDurationSeconds)} :
     \E fires \in {/\ runs
                   /\ charger.orbCharging \/ starts
                   /\ ChargeComplete(elapsed)} :
     \E aimed \in {[charger EXCEPT
                      !.state = state,
                      !.orbCharging = (charger.orbCharging \/ starts) /\ ~fires,
                      !.chargeElapsed = elapsed,
                      !.sinceLastAttack = IF fires THEN 0 ELSE sinceAttack,
                      !.airTicks = IF onGround THEN 0 ELSE charger.airTicks + 1]} :
     \E moving \in {ChargerVelocity(charger.velocity, aimed, distance, Sign(offset),
                                    onGround, dt)} :
       /\ charger' = [aimed EXCEPT !.velocity = moving]
       \* "pos.x += this.velocity.x * dt"
       /\ chargerSeen' = [call |-> "update", offset |-> offset, integrated |-> moving]
  /\ UNCHANGED notCharger

\* Enemy.kill()
ChargerKill ==
  /\ charger.alive
  /\ charger' = [charger EXCEPT !.alive = FALSE, !.velocity = 0, !.state = "dying"]
  /\ chargerSeen' = [chargerSeen EXCEPT !.call = "kill"]
  /\ UNCHANGED notCharger

NextCharger ==
  \/ \E dt \in ChargerDts, offset \in ChargerOffsets, onGround \in BOOLEAN :
       ChargerUpdate(dt, offset, onGround)
  \/ ChargerKill

(***************************************************************************)
(* The stages of a frame: animate() of src/src/Game.ts, lines 500-860      *)
(*                                                                         *)
(* What each update does to its entity is modelled in the sections above;  *)
(* here an update is one step, with the outcomes that change the arrays    *)
(* the later stages of the frame iterate over.                             *)
(***************************************************************************)
\* --- bounds of the model
InitialEnemies == 2          \* the enemies array as createGame builds it
MaxFrameProjectiles == 2     \* knives in flight
MaxFrameEffects == 3         \* explosions alive at once

NewAnim ==
  [pc |-> "idle", locked |-> FALSE, enemies |-> InitialEnemies, projectiles |-> 0,
   effects |-> 0, i |-> 0, ran |-> <<>>, rendered |-> FALSE]

InitAnim == anim = NewAnim

\* the state of the frame variable in the specifications that are not about it
ParkedAnim == anim = NewAnim

\* the pointer lock is taken or released between two frames
PointerLockChange ==
  /\ anim.pc = "idle"
  /\ anim' = [anim EXCEPT !.locked = ~anim.locked]
  /\ UNCHANGED notAnim

\* throwKnife(), from a mouse event between two frames: "projectiles.push(p)"
AnimThrowKnife ==
  /\ anim.pc = "idle" /\ anim.locked
  /\ anim.projectiles < MaxFrameProjectiles
  /\ anim' = [anim EXCEPT !.projectiles = anim.projectiles + 1]
  /\ UNCHANGED notAnim

\* animate() is entered: dt, the FPS count
AnimateBegins ==
  /\ anim.pc = "idle"
  /\ anim' = [anim EXCEPT !.pc = "player", !.ran = <<>>, !.rendered = FALSE]
  /\ UNCHANGED notAnim

\* "if (controls.isLocked) { ... }": the player's motion
PlayerStage ==
  /\ anim.pc = "player"
  /\ anim' = [anim EXCEPT !.pc = "enemies", !.i = 1,
                          !.ran = IF anim.locked THEN Append(anim.ran, "player")
                                  ELSE anim.ran]
  /\ UNCHANGED notAnim

\* "for (const e of enemies)": e.update, with the beams it owns, and the explosion of
\* an enemy whose death animation completed
EnemyStage ==
  /\ anim.pc = "enemies"
  /\ IF anim.i <= anim.enemies
       THEN \E explodes \in BOOLEAN :
              /\ explodes => anim.effects < MaxFrameEffects
              /\ anim' = [anim EXCEPT !.i = anim.i + 1,
                            !.effects = anim.effects + (IF explodes THEN 1 ELSE 0)]
       ELSE anim' = [anim EXCEPT !.pc = "projectiles", !.i = anim.projectiles,
                                 !.ran = Append(anim.ran, "enemies")]
  /\ UNCHANGED notAnim

\* "for (let i = projectiles.length - 1; i >= 0; i--)": p.update, then its hit test; a
\* hit enemy of type 1 explodes and leaves the enemies array, a projectile that is no
\* longer alive leaves the projectiles array
ProjectileStage ==
  /\ anim.pc = "projectiles"
  /\ IF anim.i >= 1
       THEN \E outcome \in {"flies", "spent", "hitsType0", "hitsType1"} :
              /\ outcome \in {"hitsType0", "hitsType1"} => anim.enemies > 0
              /\ outcome = "hitsType1" => anim.effects < MaxFrameEffects
              /\ anim' = [anim EXCEPT
                   !.i = anim.i - 1,
                   !.projectiles = anim.projectiles - (IF outcome = "flies" THEN 0 ELSE 1),
                   !.enemies = anim.enemies - (IF outcome = "hitsType1" THEN 1 ELSE 0),
                   !.effects = anim.effects + (IF outcome = "hitsType1" THEN 1 ELSE 0)]
       ELSE anim' = [anim EXCEPT !.pc = "effects", !.i = anim.effects,
                                 !.ran = Append(anim.ran, "projectiles")]
  /\ UNCHANGED notAnim

\* "for (let i = effects.length - 1; i >= 0; i--)": fx.update; an effect that is no
\* longer alive leaves the effects array
EffectStage ==
  /\ anim.pc = "effects"
  /\ IF anim.i >= 1
       THEN \E alive \in BOOLEAN :
              anim' = [anim EXCEPT !.i = anim.i - 1,
                         !.effects = anim.effects - (IF alive THEN 0 ELSE 1)]
       ELSE anim' = [anim EXCEPT !.pc = "render", !.ran = Append(anim.ran, "effects")]
  /\ UNCHANGED notAnim

\* the overlay, the hand view model and the render passes end the frame
OverlayAndRender ==
  /\ anim.pc = "render"
  /\ anim' = [anim EXCEPT !.pc = "idle", !.rendered = TRUE]
  /\ UNCHANGED notAnim

NextAnim ==
  \/ PointerLockChange
  \/ AnimThrowKnife
  \/ AnimateBegins
  \/ PlayerStage
  \/ EnemyStage
  \/ ProjectileStage
  \/ EffectStage
  \/ OverlayAndRender

(***************************************************************************)
(* One enemy under any sequence of update, kill and consumeExplosionEvent  *)
(* calls: the methods modelled above, called one at a time                 *)
(***************************************************************************)
\* --- bounds of the model
MaxTrueReturns == 2          \* "true" results of consumeExplosionEvent counted
MaxHides == 2                \* updates that hid the mesh counted
MaxPollsCounted == 2         \* polls counted since the enemy's state became dead

NoFoeCallSeen ==
  [call |-> "new", returned |-> FALSE, trueReturns |-> 0, hides |-> 0,
   diedInUpdate |-> FALSE, pollsSinceDead |-> 0]

InitFoe ==
  /\ foeRevision \in Revisions
  /\ \E type \in {0, 1} : foe = NewEnemy(1, type)
  /\ foeSeen = NoFoeCallSeen

\* the state of the variables of this section in the specifications that are not
\* about them
ParkedFoe ==
  /\ foeRevision = "part_007"
  /\ foe = NewEnemy(1, 0)
  /\ foeSeen = NoFoeCallSeen

\* foe.update(params)
FoeUpdate(dt, range, onGround) ==
  /\ foeSeen.hides < MaxHides
  /\ \E updated \in {EnemyUpdate(foe, dt, range, onGround)} :
       /\ foe' = updated
       /\ foeSeen' = [foeSeen EXCEPT
            !.call = "update",
            !.hides = @ + (IF foe.hideOnNextUpdate THEN 1 ELSE 0),
            !.diedInUpdate = @ \/ (foe.state /= "dead" /\ updated.state = "dead"),
            !.pollsSinceDead = IF foe.state /= "dead" /\ updated.state = "dead" THEN 0 ELSE @]
  /\ UNCHANGED foeRevision
  /\ UNCHANGED notFoe

\* foe.kill()
FoeKill ==
  /\ foe' = Kill(foe, foeRevision)
  /\ foeSeen' = [foeSeen EXCEPT !.call = "kill"]
  /\ UNCHANGED foeRevision
  /\ UNCHANGED notFoe

\* foe.consumeExplosionEvent(): "const v = this.spawnExplosionEvent ... return v"
FoeConsume ==
  /\ foeSeen.trueReturns < MaxTrueReturns
  /\ foe' = ConsumeExplosionEvent(foe)
  /\ foeSeen' = [foeSeen EXCEPT
       !.call = "consume",
       !.returned = foe.spawnExplosionEvent,
       !.trueReturns = @ + (IF foe.spawnExplosionEvent THEN 1 ELSE 0),
       !.pollsSinceDead = IF foe.state = "dead" THEN Min(@ + 1, MaxPollsCounted) ELSE @]
  /\ UNCHANGED foeRevision
  /\ UNCHANGED notFoe

\* loadSprites() resolves: spriteReady = true
FoeSpriteLoaded ==
  /\ ~foe.spriteReady
  /\ foe' = [foe EXCEPT !.spriteReady = TRUE]
  /\ UNCHANGED <<foeRevision, foeSeen>>
  /\ UNCHANGED notFoe

NextFoe ==
  \/ \E dt \in FrameDts, range \in PlayerRanges, onGround \in BOOLEAN :
       FoeUpdate(dt, range, onGround)
  \/ FoeKill
  \/ FoeConsume
  \/ FoeSpriteLoaded

(***************************************************************************)
(* Door removal and the collision set (src/src/Game.ts, lines 82-87,       *)
(* 146-162 and 277-302)                                                    *)
(*                                                                         *)
(* A mesh is [door, part]: part j of the node named Door<door>, door 0     *)
(* being the rest of the level. The map holds the nodes Door1 .. Door5,    *)
(* each with one or two meshes below it, in some order in the scene graph. *)
(***************************************************************************)
\* --- program constants
LastDoor == 5              \* "nextDoorIndex > 5"
FirstDoor == 1             \* let nextDoorIndex = 1

\* --- bounds of the model
MaxDoorParts == 2          \* meshes below one door node

ProbeKinds == {"ground", "wall", "projectile", "beam"}
Doors == FirstDoor..LastDoor
\* the order in which traverse() meets the nodes of the map
SceneOrders == {<<0, 1, 2, 3, 4, 5>>, <<5, 4, 3, 2, 1, 0>>, <<3, 0, 5, 1, 4, 2>>}
Maps == {[parts |-> [d \in 0..LastDoor |-> IF d \in two THEN MaxDoorParts ELSE 1],
          order |-> order] : two \in SUBSET {1, 2, 5}, order \in SceneOrders}

\* the meshes below one node, in traversal order
PartsOf(map, d) == [j \in 1..map.parts[d] |-> [door |-> d, part |-> j]]

\* "map.traverse((child) => { if (child.isMesh) collisionMeshes.push(mesh) })"
RECURSIVE PushAll(_, _)
PushAll(map, nodes) ==
  IF nodes = <<>> THEN <<>> ELSE PartsOf(map, Head(nodes)) \o PushAll(map, Tail(nodes))

WithoutRemoving(meshes, mesh) == meshes
\* "const index = collisionMeshes.indexOf(mesh); if (index > -1) collisionMeshes.splice(index, 1)"
Without(meshes, mesh) ==
  IF \E i \in 1..Len(meshes) : meshes[i] = mesh
    THEN LET index == CHOOSE i \in 1..Len(meshes) :
                        meshes[i] = mesh /\ \A k \in 1..(i - 1) : meshes[k] /= mesh
         IN SubSeq(meshes, 1, index - 1) \o SubSeq(meshes, index + 1, Len(meshes))
    ELSE meshes

\* child.traverse(descendant => ...) over the meshes below the door node
RECURSIVE WithoutAll(_, _)
WithoutAll(meshes, parts) ==
  IF parts = <<>> THEN meshes ELSE WithoutAll(Without(meshes, Head(parts)), Tail(parts))

\* "let mapRoot: THREE.Group | null = null"
NullMapRoot ==
  [loaded |-> FALSE, map |-> [parts |-> [d \in 0..LastDoor |-> 1], order |-> <<>>],
   attached |-> {}]

NoDoorCallSeen == [call |-> "new", removed |-> <<>>, tested |-> {}]

InitDoor ==
  /\ mapRoot = NullMapRoot
  /\ collisionMeshList = <<>>
  /\ nextDoorIndex = FirstDoor
  /\ doorSeen = NoDoorCallSeen

\* the state of the variables of this section in the specifications that are not
\* about them
ParkedDoor == InitDoor

\* the callback of loader.load('/map.glb', ...)
MapGlbLoaded(map) ==
  /\ ~mapRoot.loaded
  /\ mapRoot' = [loaded |-> TRUE, map |-> map, attached |-> Doors]
  /\ collisionMeshList' = collisionMeshList \o PushAll(map, map.order)
  /\ doorSeen' = [doorSeen EXCEPT !.call = "load"]
  /\ UNCHANGED nextDoorIndex
  /\ UNCHANGED notDoor

\* removeNextDoor()
RemoveNextDoor ==
  /\ IF ~mapRoot.loaded \/ nextDoorIndex > LastDoor
       THEN /\ doorSeen' = [doorSeen EXCEPT !.call = "removeNextDoor"]
            /\ UNCHANGED <<mapRoot, collisionMeshList, nextDoorIndex>>
     ELSE IF nextDoorIndex \in mapRoot.attached
       THEN /\ collisionMeshList' =
                 WithoutAll(collisionMeshList, PartsOf(mapRoot.map, nextDoorIndex))
            /\ mapRoot' = [mapRoot EXCEPT !.attached = @ \ {nextDoorIndex}]
            /\ nextDoorIndex' = nextDoorIndex + 1
            /\ doorSeen' = [doorSeen EXCEPT !.call = "removeNextDoor",
                                            !.removed = Append(@, nextDoorIndex)]
       ELSE /\ doorSeen' = [doorSeen EXCEPT !.call = "removeNextDoor"]
            /\ UNCHANGED <<mapRoot, collisionMeshList, nextDoorIndex>>
  /\ UNCHANGED notDoor

\* a ray cast of the given kind: intersectObjects(collisionMeshes, false, hits)
Probe(kind) ==
  /\ doorSeen' = [doorSeen EXCEPT
                    !.call = kind,
                    !.tested = {collisionMeshList[i] : i \in 1..Len(collisionMeshList)}]
  /\ UNCHANGED <<mapRoot, collisionMeshList, nextDoorIndex>>
  /\ UNCHANGED notDoor

NextDoor ==
  \/ \E map \in Maps : MapGlbLoaded(map)
  \/ RemoveNextDoor
  \/ \E kind \in ProbeKinds : Probe(kind)

(***************************************************************************)
(* reset() against the constructor (src/src/GameLoop.ts): the methods as   *)
(* functions of the fields of one GameLoop. Each gives the fields after    *)
(* the call and the callbacks the call invoked, in order. One GameLoop is  *)
(* taken through any calls and then reset; from then on it and a new       *)
(* GameLoop at its level index are given the same calls.                   *)
(***************************************************************************)
\* --- bounds of the model
MaxTwinTimer == 4          \* outside the fades a tick is taken only while phaseTimer <= this

TwinDts == {ClampedDt, BigDt}
TwinPositions == {Origin, <<0, 17, 0>>}

\* the field initialisers of the class, at a level index
NewGameLoop(level) ==
  [currentLevel |-> level, phase |-> "intro", phaseTimer |-> 0, playerHasMoved |-> FALSE,
   lastPlayerPosition |-> Origin, currentEnemies |-> <<>>, enemyDefeated |-> FALSE,
   fadeAlpha |-> 0, fadeReason |-> "null"]

Outcome(g, fired) == [loop |-> g, fired |-> fired]

\* GameLoop.update(dt, playerPosition)
LoopUpdate(g, dt, p) ==
  LET timer == g.phaseTimer + dt
      ticked == [g EXCEPT !.phaseTimer = timer]
  IN CASE g.phase = "intro" ->
            Outcome([ticked EXCEPT
                       !.playerHasMoved = @ \/ MovedFrom(p, g.lastPlayerPosition),
                       !.phase = IF ~g.playerHasMoved /\ MovedFrom(p, g.lastPlayerPosition)
                                   THEN "playing" ELSE @,
                       !.lastPlayerPosition = p], <<>>)
       [] g.phase = "playing" ->
            IF /\ Len(g.currentEnemies) > 0
               /\ \A i \in 1..Len(g.currentEnemies) : ~g.currentEnemies[i]
               /\ ~g.enemyDefeated
              THEN Outcome([ticked EXCEPT !.enemyDefeated = TRUE, !.phase = "enemy-defeated",
                                          !.phaseTimer = 0], <<"onEnemyDefeated">>)
              ELSE Outcome(ticked, <<>>)
       [] g.phase = "enemy-defeated" -> Outcome(ticked, <<>>)
       [] g.phase = "fade-out" ->
            LET alpha == FadeOutAlpha(g.fadeAlpha, dt)
            IN IF alpha >= AlphaOne
                 THEN Outcome([ticked EXCEPT !.fadeAlpha = alpha, !.phase = "restarting",
                                             !.phaseTimer = 0], <<>>)
                 ELSE Outcome([ticked EXCEPT !.fadeAlpha = alpha], <<>>)
       [] g.phase = "restarting" ->
            Outcome([ticked EXCEPT
                       !.phase = IF timer > BlackScreenTime THEN "fade-in" ELSE @,
                       !.phaseTimer = IF timer > BlackScreenTime THEN 0 ELSE @],
                    IF timer < FirstFrameWindow
                      THEN IF g.fadeReason = "player-death"
                             THEN <<"onRestartLevel">> ELSE <<"onFadeComplete">>
                      ELSE <<>>)
       [] g.phase = "fade-in" ->
            LET alpha == FadeInAlpha(g.fadeAlpha, dt)
            IN IF alpha <= 0
                 THEN Outcome([ticked EXCEPT !.fadeAlpha = alpha, !.phase = "intro",
                                             !.playerHasMoved = FALSE,
                                             !.enemyDefeated = FALSE,
                                             !.fadeReason = "null"], <<>>)
                 ELSE Outcome([ticked EXCEPT !.fadeAlpha = alpha], <<>>)

\* GameLoop.triggerMaskPickup()
LoopTriggerMaskPickup(g) ==
  IF g.phase \in {"playing", "enemy-defeated"}
    THEN Outcome([g EXCEPT !.fadeReason = "level-advance", !.phase = "fade-out",
                           !.phaseTimer = 0], <<"onMaskPickup">>)
    ELSE Outcome(g, <<>>)

\* GameLoop.triggerPlayerDeath()
LoopTriggerPlayerDeath(g) ==
  IF g.phase \in {"fade-out", "fade-in", "restarting"}
    THEN Outcome(g, <<>>)
    ELSE Outcome([g EXCEPT !.fadeReason = "player-death", !.phase = "fade-out",
                           !.phaseTimer = 0], <<>>)

\* GameLoop.startNextLevel()
LoopStartNextLevel(g) ==
  Outcome([g EXCEPT !.currentLevel = NextLevelIndex(@), !.phase = "fade-in",
                    !.phaseTimer = 0], <<"onLevelComplete">>)

LoopResetKeepingFadeAlpha(g) ==
  [g EXCEPT !.phase = "intro", !.phaseTimer = 0, !.playerHasMoved = FALSE,
            !.enemyDefeated = FALSE, !.currentEnemies = <<>>,
            !.lastPlayerPosition = Origin]
\* GameLoop.reset()
LoopReset(g) ==
  [g EXCEPT !.phase = "intro", !.phaseTimer = 0, !.playerHasMoved = FALSE,
            !.enemyDefeated = FALSE, !.currentEnemies = <<>>, !.fadeAlpha = 0,
            !.lastPlayerPosition = Origin]

\* the calls both sequencers are given after the reset
TwinCalls ==
  {[name |-> "update", dt |-> dt, p |-> p] : dt \in TwinDts, p \in TwinPositions}
  \cup {[name |-> n, dt |-> 0, p |-> Origin] :
          n \in {"triggerMaskPickup", "triggerPlayerDeath", "startNextLevel"}}

LoopCall(g, call) ==
  CASE call.name = "update" -> LoopUpdate(g, call.dt, call.p)
    [] call.name = "triggerMaskPickup" -> LoopTriggerMaskPickup(g)
    [] call.name = "triggerPlayerDeath" -> LoopTriggerPlayerDeath(g)
    [] call.name = "startNextLevel" -> LoopStartNextLevel(g)

\* the ticks the model takes (its bound on phaseTimer)
TwinTick(g, call) ==
  call.name = "update" => (g.phase \in FadePhases \/ g.phaseTimer <= MaxTwinTimer)

NoTwinCallSeen ==
  [call |-> "new", reset |-> FALSE, resetWith |-> "null", usedFired |-> <<>>,
   freshFired |-> <<>>]

InitTwin ==
  /\ used = NewGameLoop(0)
  /\ fresh = NewGameLoop(0)
  /\ twinSeen = NoTwinCallSeen

\* the state of the variables of this section in the specifications that are not
\* about them
ParkedTwin == InitTwin

\* a call on the first GameLoop before it is reset
CallBeforeReset(call) ==
  /\ ~twinSeen.reset
  /\ TwinTick(used, call)
  /\ used' = LoopCall(used, call).loop
  /\ twinSeen' = [twinSeen EXCEPT !.call = call.name,
                                  !.usedFired = LoopCall(used, call).fired]
  /\ UNCHANGED fresh
  /\ UNCHANGED notTwin

\* the game assigns the level's enemies: "currentEnemies" is a public field
EnemiesAssigned ==
  /\ ~twinSeen.reset
  /\ used.currentEnemies = <<>>
  /\ used' = [used EXCEPT !.currentEnemies = <<TRUE>>]
  /\ twinSeen' = [twinSeen EXCEPT !.call = "enemies", !.usedFired = <<>>]
  /\ UNCHANGED fresh
  /\ UNCHANGED notTwin

\* Enemy.kill() on a tracked enemy
TrackedEnemyKilled ==
  /\ ~twinSeen.reset
  /\ used.currentEnemies = <<TRUE>>
  /\ used' = [used EXCEPT !.currentEnemies = <<FALSE>>]
  /\ twinSeen' = [twinSeen EXCEPT !.call = "kill", !.usedFired = <<>>]
  /\ UNCHANGED fresh
  /\ UNCHANGED notTwin

\* reset() on the first GameLoop; a second one is constructed at its level index
TwinReset ==
  /\ ~twinSeen.reset
  /\ used' = LoopReset(used)
  /\ fresh' = NewGameLoop(used.currentLevel)
  /\ twinSeen' = [call |-> "reset", reset |-> TRUE, resetWith |-> used.fadeReason,
                  usedFired |-> <<>>, freshFired |-> <<>>]
  /\ UNCHANGED notTwin

\* the same call on both
CallOnBoth(call) ==
  /\ twinSeen.reset
  /\ TwinTick(used, call) /\ TwinTick(fresh, call)
  /\ used' = LoopCall(used, call).loop
  /\ fresh' = LoopCall(fresh, call).loop
  /\ twinSeen' = [twinSeen EXCEPT !.call = call.name,
                                  !.usedFired = LoopCall(used, call).fired,
                                  !.freshFired = LoopCall(fresh, call).fired]
  /\ UNCHANGED notTwin

NextTwin ==
  \/ \E call \in TwinCalls : CallBeforeReset(call)
  \/ EnemiesAssigned
  \/ TrackedEnemyKilled
  \/ TwinReset
  \/ \E call \in TwinCalls : CallOnBoth(call)

(***************************************************************************)
(* Specifications                                                          *)
(***************************************************************************)
vars == <<loopVars, beamVars, combatVars, projectileVars, groundVars, orbVars, jumpVars, moveVars, tankVars, chargerVars, animVars, foeVars, doorVars, twinVars>>

\* the level sequencer under any sequence of calls
Init == InitLoop /\ ParkedBeam /\ ParkedCombat /\ ParkedProjectile /\ ParkedGround /\ ParkedOrb /\ ParkedJump /\ ParkedMove /\ ParkedTank /\ ParkedCharger /\ ParkedAnim /\ ParkedFoe /\ ParkedDoor /\ ParkedTwin
Next == NextLoop
Spec == Init /\ [][Next]_vars

\* The level sequencer from one fade to the next: while the screen fades the game calls
\* nothing but update, with the dt of a frame, and the frames keep coming
FadeDts == {1, ClampedDt}
FadeRun ==
  \E dt \in FadeDts, p \in Positions :
    FadeOutStep(dt, p) \/ RestartingStep(dt, p) \/ FadeInStep(dt, p)
BeforeFade ==
  /\ phase \notin FadePhases
  /\ \/ \E dt \in DtValues, p \in Positions : Update(dt, p)
     \/ TriggerMaskPickup
     \/ TriggerPlayerDeath
NextFade == BeforeFade \/ FadeRun
SpecFade == Init /\ [][NextFade]_vars /\ WF_vars(FadeRun)

\* one beam under any interleaving of update and tryHitPlayer
BeamInit == InitBeam /\ InitLoop /\ ParkedCombat /\ ParkedProjectile /\ ParkedGround /\ ParkedOrb /\ ParkedJump /\ ParkedMove /\ ParkedTank /\ ParkedCharger /\ ParkedAnim /\ ParkedFoe /\ ParkedDoor /\ ParkedTwin
SpecBeam == BeamInit /\ [][NextBeam]_vars

\* the enemies of one level under any sequence of frames and kill() calls
EnemyInit == InitCombat /\ InitLoop /\ ParkedBeam /\ ParkedProjectile /\ ParkedGround /\ ParkedOrb /\ ParkedJump /\ ParkedMove /\ ParkedTank /\ ParkedCharger /\ ParkedAnim /\ ParkedFoe /\ ParkedDoor /\ ParkedTwin
SpecEnemy == EnemyInit /\ [][NextEnemy]_vars
\* the same, with the frames that requestAnimationFrame keeps scheduling; the image of
\* the sprite sheet may load at any time or never
EnemyFrames ==
  \E dt \in FrameDts, range \in PlayerRanges, onGround \in BOOLEAN :
    Frame(dt, range, onGround, <<>>)
SpecEnemyFair == SpecEnemy /\ WF_vars(EnemyFrames)

\* the enemies and the projectiles of one level under any sequence of frames and throws
CombatInit == InitCombat /\ InitLoop /\ ParkedBeam /\ ParkedProjectile /\ ParkedGround /\ ParkedOrb /\ ParkedJump /\ ParkedMove /\ ParkedTank /\ ParkedCharger /\ ParkedAnim /\ ParkedFoe /\ ParkedDoor /\ ParkedTwin
SpecCombat == CombatInit /\ [][NextCombat]_vars

\* one projectile under any sequence of update calls and ray cast results
ProjectileInit == InitProjectile /\ InitLoop /\ ParkedBeam /\ ParkedCombat /\ ParkedGround /\ ParkedOrb /\ ParkedJump /\ ParkedMove /\ ParkedTank /\ ParkedCharger /\ ParkedAnim /\ ParkedFoe /\ ParkedDoor /\ ParkedTwin
SpecProjectile == ProjectileInit /\ [][NextProjectile]_vars

\* one agent, the player or an enemy, under any sequence of movement updates
GroundInit == InitGround /\ InitLoop /\ ParkedBeam /\ ParkedCombat /\ ParkedProjectile /\ ParkedOrb /\ ParkedJump /\ ParkedMove /\ ParkedTank /\ ParkedCharger /\ ParkedAnim /\ ParkedFoe /\ ParkedDoor /\ ParkedTwin
SpecGround == GroundInit /\ [][NextGround]_vars

\* one enemy under any sequence of updates, polls of its orb events and a kill
OrbInit == InitOrb /\ InitLoop /\ ParkedBeam /\ ParkedCombat /\ ParkedProjectile /\ ParkedGround /\ ParkedJump /\ ParkedMove /\ ParkedTank /\ ParkedCharger /\ ParkedAnim /\ ParkedFoe /\ ParkedDoor /\ ParkedTwin
SpecOrb == OrbInit /\ [][NextOrb]_vars

\* the same enemy with the time since its latest shot observed: the player in the
\* preferred window or out of range
MaxShotsCounted == 2
TimedOffsets == {<<16, 0, 0>>, <<0, 0, -120>>}
TimedOrbUpdate(dt, offset) ==
  /\ OrbStep(dt, offset)
  /\ shotClock' = IF shooter'.sinceLastAttack = 0
                    THEN [sinceShot |-> 0, gap |-> Min(shotClock.sinceShot + dt, ShotGap),
                          fired |-> Min(shotClock.fired + 1, MaxShotsCounted)]
                    ELSE [shotClock EXCEPT !.sinceShot = Min(@ + dt, ShotGap)]
NextOrbTimed ==
  \/ \E dt \in OrbDts, offset \in TimedOffsets : TimedOrbUpdate(dt, offset)
  \/ OrbKill
  \/ ConsumeOrbShotDirection
  \/ ConsumeOrbChargeStartedEvent
SpecOrbTimed == OrbInit /\ [][NextOrbTimed]_vars

\* the jump step of the player's tick on every state the tick can hand it
JumpInit == InitJump /\ InitLoop /\ ParkedBeam /\ ParkedCombat /\ ParkedProjectile /\ ParkedGround /\ ParkedOrb /\ ParkedMove /\ ParkedTank /\ ParkedCharger /\ ParkedAnim /\ ParkedFoe /\ ParkedDoor /\ ParkedTwin
SpecJump == JumpInit /\ [][NextJump]_vars

\* the slide, friction and acceleration steps of the player's tick
MoveInit == InitMove /\ InitLoop /\ ParkedBeam /\ ParkedCombat /\ ParkedProjectile /\ ParkedGround /\ ParkedOrb /\ ParkedJump /\ ParkedTank /\ ParkedCharger /\ ParkedAnim /\ ParkedFoe /\ ParkedDoor /\ ParkedTwin
SpecMove == MoveInit /\ [][NextMove]_vars

\* a type-1 enemy under every sequence of updates
TankInit == InitTank /\ InitLoop /\ ParkedBeam /\ ParkedCombat /\ ParkedProjectile /\ ParkedGround /\ ParkedOrb /\ ParkedJump /\ ParkedMove /\ ParkedCharger /\ ParkedAnim /\ ParkedFoe /\ ParkedDoor /\ ParkedTwin
SpecTank == TankInit /\ [][NextTank]_vars

\* the same enemy, killed at any time between its updates
NextTankKilled == NextTank \/ TankKill
SpecTankKilled == TankInit /\ [][NextTankKilled]_vars

\* a type-0 enemy under every sequence of updates and a kill
ChargerInit == InitCharger /\ InitLoop /\ ParkedBeam /\ ParkedCombat /\ ParkedProjectile /\ ParkedGround /\ ParkedOrb /\ ParkedJump /\ ParkedMove /\ ParkedTank /\ ParkedAnim /\ ParkedFoe /\ ParkedDoor /\ ParkedTwin
SpecCharger == ChargerInit /\ [][NextCharger]_vars

\* the frames of animate(), with the events between them
AnimInit == InitAnim /\ InitLoop /\ ParkedBeam /\ ParkedCombat /\ ParkedProjectile /\ ParkedGround /\ ParkedOrb /\ ParkedJump /\ ParkedMove /\ ParkedTank /\ ParkedCharger /\ ParkedFoe /\ ParkedDoor /\ ParkedTwin
SpecAnim == AnimInit /\ [][NextAnim]_vars

\* one enemy under every sequence of calls of update, kill and consumeExplosionEvent
FoeInit == InitFoe /\ InitLoop /\ ParkedBeam /\ ParkedCombat /\ ParkedProjectile /\ ParkedGround /\ ParkedOrb /\ ParkedJump /\ ParkedMove /\ ParkedTank /\ ParkedCharger /\ ParkedAnim /\ ParkedDoor /\ ParkedTwin
SpecFoe == FoeInit /\ [][NextFoe]_vars

\* the map, the key that removes a door and the probes, in any order
DoorInit == InitDoor /\ InitLoop /\ ParkedBeam /\ ParkedCombat /\ ParkedProjectile /\ ParkedGround /\ ParkedOrb /\ ParkedJump /\ ParkedMove /\ ParkedTank /\ ParkedCharger /\ ParkedAnim /\ ParkedFoe /\ ParkedTwin
SpecDoor == DoorInit /\ [][NextDoor]_vars

\* a GameLoop with any history, reset, and from then on a new one beside it
TwinInit == InitTwin /\ InitLoop /\ ParkedBeam /\ ParkedCombat /\ ParkedProjectile /\ ParkedGround /\ ParkedOrb /\ ParkedJump /\ ParkedMove /\ ParkedTank /\ ParkedCharger /\ ParkedAnim /\ ParkedFoe /\ ParkedDoor
SpecTwin == TwinInit /\ [][NextTwin]_vars


(***************************************************************************)
(* Claims about GameLoop                                                   *)
(***************************************************************************)
\* C1 (as stated): in a visit to intro, an update tick leaves the phase intro
\* unless the position passed differs by more than 0.1 from the position passed
\* on the previous tick of the visit, and then the phase becomes playing on that
\* tick; the first tick of a visit has no previous tick, so it stays in intro
\* for any position p.
C1_IntroWaitsForMovement ==
  [][(phase = "intro" /\ lastCall'.name = "update")
       => (phase' = "playing"
             <=> (introTicked /\ MovedFrom(lastPlayerPosition', lastPlayerPosition)))]_vars

\* C2 (as stated): in a visit to restarting whose ticks all have 0 < dt <= 0.05 s,
\* the restart/advance callback has been invoked exactly once as soon as one
\* tick was taken, and never a second time.
C2_RestartCallbackOnce ==
  (phase = "restarting" /\ visitDtClamped)
     => restartCalls = (IF phaseTimer > 0 THEN 1 ELSE 0)

\* C9: in every reachable state 0 <= fadeAlpha <= 1, for any calls and any
\* dt >= 0, the 10 s tick included.
C9_FadeAlphaInUnitInterval == 0 <= fadeAlpha /\ fadeAlpha <= AlphaOne

\* C9 witness: a fade-in that one 10 s tick completed (phaseTimer is not reset
\* when fade-in ends, and no tick of the new intro visit was taken yet).
C9_Witness ==
  /\ phase = "intro" /\ ~introTicked /\ lastCall.name = "update"
  /\ phaseTimer >= BigDt /\ fadeAlpha = 0

\* C10: while the phase is fade-out, restarting or fade-in, triggerMaskPickup()
\* and triggerPlayerDeath() change none of phase, phaseTimer, fadeReason and
\* fadeAlpha, and onMaskPickup is not invoked.
C10_TriggersIgnoredDuringFade ==
  [][(phase \in FadePhases /\ lastCall'.name \in {"triggerMaskPickup", "triggerPlayerDeath"})
       => (/\ UNCHANGED <<phase, phaseTimer, fadeReason, fadeAlpha>>
           /\ "onMaskPickup" \notin lastCall'.fired)]_vars

\* C10 witness: a player death arrived during the black screen of a level-advance fade.
C10_Witness ==
  /\ phase = "restarting" /\ lastCall.name = "triggerPlayerDeath"
  /\ fadeReason = "level-advance"

(***************************************************************************)
(* Claims about TankAttack                                                 *)
(***************************************************************************)
\* the player position is a point of the beam segment, from the start point to
\* the resolved end point, within the hit radius
OnBeamSegment(playerPos) ==
  LET t == Dot(playerPos, direction)
  IN 0 <= t /\ t <= actualDistance /\ WithinHitRadius(playerPos, t)

\* C5 (as stated): when the beam's life is over and update followed by
\* tryHitPlayer was called every tick of it with the player standing still at
\* a point of the beam segment within the hit radius, tryHitPlayer has returned
\* true exactly once.
C5_OneHitOverLifetime ==
  (~beamAlive /\ everyTick = "await-update" /\ lastHit.called
     /\ OnBeamSegment(lastHit.pos))
    => beamHits = 1

\* C6: tryHitPlayer returns true at most once per beam instance, and never on
\* a beam that is no longer alive, whatever the interleaving of update and
\* tryHitPlayer and whatever the player positions.
C6_AtMostOneHit == beamHits <= 1 /\ ~hitWhenDead

\* C6 witness: after a hit, a later call on the still living beam passes the
\* segment test and is refused by the flag.
C6_Witness ==
  /\ beamHits = 1 /\ beamAlive /\ lastHit.called /\ lastHit.result = FALSE
  /\ LET t == Dot(lastHit.pos, direction)
     IN ~OutsideCurrentLength(t) /\ WithinHitRadius(lastHit.pos, t)

(***************************************************************************)
(* Claims about Enemy.kill() and the projectile-versus-enemy pass          *)
(***************************************************************************)
\* the fields of an enemy that kill() writes
KillFields(e) ==
  <<e.alive, e.state, e.deathAnimTime, e.velocity, e.hideOnNextUpdate, e.spawnExplosionEvent>>

\* C3: kill() is idempotent: a call on an enemy that is already not alive
\* leaves alive, state, deathAnimTime, velocity and the event flags as they
\* are; however many kill() calls one tick makes on an enemy, the enemy is not
\* alive afterwards and exactly one death sequence has started.
C3_KillIdempotent ==
  [][\A id \in EnemyIds :
       /\ (KillCall(id) /\ ~enemy[id].alive)
            => (KillFields(enemy'[id]) = KillFields(enemy[id])
                  /\ deathStarts'[id] = deathStarts[id])
       /\ killCalls'[id] >= 1 => (~enemy'[id].alive /\ deathStarts'[id] = 1)]_vars

\* C3 witness: two kill() calls in one tick on an enemy that is part-way through
\* its death animation and falling.
C3_Witness ==
  \E id \in EnemyIds :
    /\ killCalls[id] = 2
    /\ enemy[id].state = "dying" /\ enemy[id].deathAnimTime > 0
    /\ enemy[id].velocity.vertical

\* C4: in the projectile-versus-enemy pass of a frame every hit is on an
\* enemy that was alive when the pass began and is not alive after it, no enemy
\* is hit twice (a second overlapping projectile is not consumed by it), no
\* projectile hits two enemies, the projectile of a hit is removed in that
\* frame, and a projectile that was alive after its update and hit nothing
\* stays in flight.
C4_OneKillPerEnemyAndProjectile ==
  /\ \A k \in 1..Len(frameKills) :
       /\ frameKills[k].enemy \in frameHittable
       /\ ~enemy[frameKills[k].enemy].alive
       /\ \A i \in 1..Len(projectiles) : projectiles[i].id /= frameKills[k].proj
       /\ \A j \in 1..Len(frameKills) :
            j /= k => /\ frameKills[j].enemy /= frameKills[k].enemy
                      /\ frameKills[j].proj /= frameKills[k].proj
  /\ \A id \in frameFlew :
       (\E i \in 1..Len(projectiles) : projectiles[i].id = id)
         <=> (\A k \in 1..Len(frameKills) : frameKills[k].proj /= id)
  /\ \A id \in EnemyIds : deathStarts[id] <= 1

\* C4 witness: a frame with one hit after which a second projectile that overlaps
\* the enemy hit is still in flight.
C4_Witness ==
  /\ Len(frameKills) = 1
  /\ \E i \in 1..Len(projectiles) :
       /\ projectiles[i].id \in frameFlew
       /\ Overlaps(projectiles[i].pos, enemy[frameKills[1].enemy])

(***************************************************************************)
(* Claims about Projectile                                                 *)
(***************************************************************************)
\* C7 (as stated): with bounceRestitution > 0 and any maxBounces >= 0 the
\* projectile is not alive, for the bounce budget, as soon as bounceCount
\* exceeds maxBounces, and the bounce budget ends it on no other bounce.
C7_BudgetEndsProjectile ==
  /\ (options.bounceRestitution.num > 0 /\ bounceCount > options.maxBounces)
       => (~projectileAlive /\ deathCause = "budget")
  /\ deathCause = "budget" => bounceCount = options.maxBounces + 1

\* C7 (amended): the same for maxBounces >= 1; with maxBounces = 0 the bounce
\* budget never ends the projectile, however often it bounces.
C7_BudgetEndsProjectileWhenPositive ==
  /\ (options.bounceRestitution.num > 0 /\ options.maxBounces >= 1
        /\ bounceCount > options.maxBounces)
       => (~projectileAlive /\ deathCause = "budget")
  /\ deathCause = "budget"
       => (options.maxBounces >= 1 /\ bounceCount = options.maxBounces + 1)

\* C7 witness: a budget of 7 bounces is used up by the eighth bounce, in the second
\* update that bounces.
C7_Witness ==
  /\ options.maxBounces = 7 /\ bounceCount = 8
  /\ ~projectileAlive /\ deathCause = "budget"

\* C8: after every movement update of the player or of an enemy, a true grounded
\* flag means that position.y equals groundY + the current collision height, groundY
\* being the surface the update's ground probe found (within height + 0.1).
C8_GroundedRestsOnSurface ==
  grounded => /\ groundFound.grounded
              /\ positionY = groundFound.groundY + currentHeight

\* an update tick taken in phase playing
TickInPlaying == phase = "playing" /\ lastCall'.name = "update"
EveryTrackedEnemyDead == \A i \in 1..Len(currentEnemies) : ~currentEnemies[i]
DefeatAnnounced == phase' = "enemy-defeated" /\ "onEnemyDefeated" \in lastCall'.fired

OrbTick == shooterSeen'.call = "update"
InOrbWindow(offset) ==
  Abs(HorizontalDistance(offset) - orbPreferredDistance) <= orbPreferredWindow
PursuingShooter == shooter.type = 0 /\ shooter.alive /\ shooter.state = "pursuing"

\* C12: a pursuing, alive type-0 enemy within 4 +/- 1 of the player whose cooldown has
\* elapsed starts a charge; once 3.0 s of charge have elapsed it emits exactly one
\* shot-fired event for that charge, whose direction is the normalised vector from the
\* enemy to the player's position on the firing tick.
C12_ChargeThenOneAimedShot ==
  [][/\ \* the charge starts
        (/\ OrbTick /\ PursuingShooter /\ ~shooter.orbCharging
         /\ InOrbWindow(shooterSeen'.offset)
         /\ shooter.sinceLastAttack >= orbCooldownSeconds)
          => /\ shooter'.orbCharging /\ shooter'.orbChargeStartedEvent
             /\ shooterSeen'.chargeOffset = shooterSeen'.offset
             /\ shooterSeen'.shots = 0
     /\ \* a charge goes on for less than 3.0 s or ends with the shot
        (OrbTick /\ PursuingShooter /\ shooter.orbCharging /\ shooter'.state = "pursuing")
          => \/ /\ shooter'.orbCharging
                /\ shooter'.chargeElapsed < orbChargeDurationSeconds
                /\ shooterSeen'.shots = shooterSeen.shots
             \/ /\ ~shooter'.orbCharging /\ shooter'.orbShotEvent
                /\ shooter.chargeElapsed + ClampedDt >= orbChargeDurationSeconds
                /\ shooterSeen'.shots = shooterSeen.shots + 1
     /\ \* one shot for a charge, aimed at the player of the firing tick
        shooterSeen'.shots <= 1
     /\ shooterSeen'.shots > shooterSeen.shots
          => /\ OrbTick /\ shooter.orbCharging /\ shooter'.orbShotEvent
             /\ VectorLength(shooterSeen'.offset) > 0
                  => shooter'.orbShotDir = UnitVector(shooterSeen'.offset)]_vars

\* a shot was fired at a player who stood elsewhere when the charge began
C12_Witness ==
  /\ shooterSeen.call = "update"
  /\ shooterSeen.shots = 1
  /\ shooter.orbShotEvent
  /\ shooterSeen.offset = <<12, 16, 0>>
  /\ shooterSeen.chargeOffset = <<16, 0, 0>>
  /\ shooter.orbShotDir = <<12, 16, 0>>

\* the latest jump step began a jump: it changed the fields it was handed
JumpBegan == jump /= jumpBefore

\* C13: a jump begins on a tick only if, before the jump is applied, velocity.y <= 0.1,
\* a jump is requested (key held or jump buffer > 0) and the player is grounded or less
\* than coyoteTime has passed since it was; a request on a tick with velocity.y > 0.1
\* leaves velocity, grounded, the coyote timer and the jump buffer untouched.
C13_JumpOnlyWhenNotRising ==
  /\ JumpBegan =>
       /\ jumpBefore.velocityY <= JumpVelocityCeiling
       /\ jumpBefore.wantJump \/ jumpBefore.jumpBuffered > 0
       /\ jumpBefore.grounded \/ jumpBefore.timeSinceGrounded < coyoteTime
  /\ jumpBefore.velocityY > JumpVelocityCeiling =>
       /\ jump.velocityY = jumpBefore.velocityY
       /\ jump.speed = jumpBefore.speed
       /\ jump.grounded = jumpBefore.grounded
       /\ jump.timeSinceGrounded = jumpBefore.timeSinceGrounded
       /\ jump.jumpBuffered = jumpBefore.jumpBuffered

\* a grounded player moving up at 0.2 m/s asked for a jump, by key and by buffer
C13_Witness ==
  /\ jumpBefore.velocityY = 2
  /\ jumpBefore.wantJump
  /\ jumpBefore.jumpBuffered = jumpBufferTime
  /\ jumpBefore.grounded
  /\ jump = jumpBefore

\* the latest tick turned the sliding flag on
SlideEntered == ~moverSeen.wasSliding /\ mover.sliding

\* the latest tick found the player sliding with nothing but speed to end the slide:
\* crouch held, time left on the slide timer, on the ground, no jump
OnlySpeedCouldEndSlide ==
  /\ moverSeen.wasSliding
  /\ moverSeen.wantCrouch
  /\ moverSeen.timerBefore - moverSeen.dt > 0
  /\ moverSeen.grounded
  /\ ~moverSeen.jumped

\* C14: a slide is entered only on a tick where crouch and sprint are held, the player
\* is grounded and the horizontal speed is strictly above walkSpeed; once sliding, speed
\* alone ends the slide only when it is below slideMinSpeed; at a horizontal speed of
\* exactly walkSpeed no slide is entered.
C14_SlideEntryAndSpeedExit ==
  /\ SlideEntered =>
       /\ moverSeen.wantCrouch /\ moverSeen.sprinting /\ moverSeen.grounded
       /\ moverSeen.horizontalSpeed > walkSpeed
  /\ OnlySpeedCouldEndSlide =>
       (~mover.sliding <=> moverSeen.horizontalSpeed < slideMinSpeed)
  /\ (moverSeen.horizontalSpeed = walkSpeed /\ ~moverSeen.wasSliding) => ~mover.sliding

\* crouch and sprint pressed on the ground at exactly walkSpeed: no slide
C14_Witness ==
  /\ moverSeen.horizontalSpeed = walkSpeed
  /\ moverSeen.wantCrouch /\ moverSeen.sprinting /\ moverSeen.grounded
  /\ ~moverSeen.jumped /\ ~moverSeen.wasSliding
  /\ ~mover.sliding

\* a slide ended by nothing but a speed below slideMinSpeed
C14_SpeedExitReached ==
  /\ OnlySpeedCouldEndSlide
  /\ moverSeen.horizontalSpeed < slideMinSpeed
  /\ ~mover.sliding

\* the velocity the acceleration step of the latest tick added
AccelerationGain == mover.velocity - moverSeen.beforeAccelerate

\* C17: the velocity change of the acceleration step is non-negative along the wish
\* direction, at most accel * dt * maxSpeed for the (maxSpeed, accel) pair of the
\* player's state, and never lifts the component along the wish direction above
\* maxSpeed if it was at or below it.
C17_AccelerationBounded ==
  /\ AccelerationGain * moverSeen.wish >= 0
  /\ Abs(AccelerationGain) <= AccelBudget(moverSeen.accel, moverSeen.dt, moverSeen.maxSpeed)
  /\ moverSeen.wish = 0 => AccelerationGain = 0
  /\ moverSeen.beforeAccelerate * moverSeen.wish <= moverSeen.maxSpeed =>
       mover.velocity * moverSeen.wish <= moverSeen.maxSpeed
  /\ moverSeen.maxSpeed =
       MaxSpeedFor(moverSeen.grounded /\ ~moverSeen.jumped, mover.sliding,
                   moverSeen.sprinting)

\* an airborne player moving at 3.5 m/s gains 0.5 m/s, not the 7 m/s of the budget
C17_Witness ==
  /\ ~moverSeen.grounded
  /\ moverSeen.wish /= 0
  /\ moverSeen.maxSpeed = airSpeed
  /\ moverSeen.beforeAccelerate * moverSeen.wish > 0
  /\ moverSeen.beforeAccelerate * moverSeen.wish < airSpeed
  /\ mover.velocity * moverSeen.wish = airSpeed

\* the projectiles that were tested against the enemies in the latest frame, with the
\* position they were tested at: those that hit and those still in flight
TestedProjectiles ==
  {[id |-> frameKills[k].proj, pos |-> frameKills[k].pos] : k \in 1..Len(frameKills)}
    \cup {projectiles[i] : i \in {j \in 1..Len(projectiles) : projectiles[j].id \in frameFlew}}

HitRegistered(p, id) == \E k \in 1..Len(frameKills) : frameKills[k] = [proj |-> p.id, enemy |-> id, pos |-> p.pos]

HorizontallyInReach(p, id) ==
  (p.pos[1] - enemy[id].pos[1]) * (p.pos[1] - enemy[id].pos[1])
     <= (enemyRadius + KnifeCollisionRadius) * (enemyRadius + KnifeCollisionRadius)

VerticalDistance(p, id) == Abs(p.pos[2] - enemy[id].pos[2])

KilledInFrame(id) == \E k \in 1..Len(frameKills) : frameKills[k].enemy = id

\* C15 as stated: for every alive projectile and alive enemy of a tick, a hit is
\* registered if and only if the horizontal distance is at most hitRadius +
\* collisionRadius and the vertical distance is at most the enemy's half-height.
C15_HitIffWithinHalfHeight ==
  \A p \in TestedProjectiles : \A id \in frameHittable :
    HitRegistered(p, id) <=>
      (HorizontallyInReach(p, id) /\ VerticalDistance(p, id) <= enemyHeight)

\* C15 amended: a hit is registered only on an enemy alive at the start of the pass
\* with horizontal distance at most hitRadius + collisionRadius and vertical distance
\* at most halfHeight + collisionRadius; a projectile hits at most one enemy; a
\* projectile still in flight has no such enemy in reach, but for those another
\* projectile killed in the same frame.
C15_HitWithinRadiiAndHalfHeightPlusRadius ==
  \A p \in TestedProjectiles :
    /\ \A id \in EnemyIds :
         HitRegistered(p, id) =>
           /\ id \in frameHittable
           /\ HorizontallyInReach(p, id)
           /\ VerticalDistance(p, id) <= enemyHeight + KnifeCollisionRadius
    /\ Cardinality({id \in EnemyIds : HitRegistered(p, id)}) <= 1
    /\ \A id \in frameHittable :
         (/\ HorizontallyInReach(p, id)
          /\ VerticalDistance(p, id) <= enemyHeight + KnifeCollisionRadius
          /\ \A other \in EnemyIds : ~HitRegistered(p, other))
           => KilledInFrame(id)

\* a hit at 2.1 above the enemy's centre: more than halfHeight, within halfHeight +
\* collisionRadius
C15_Witness ==
  \E k \in 1..Len(frameKills) :
    /\ frameKills[k].enemy \in frameHittable
    /\ VerticalDistance(frameKills[k], frameKills[k].enemy) > enemyHeight
    /\ VerticalDistance(frameKills[k], frameKills[k].enemy) <= enemyHeight + KnifeCollisionRadius

\* C16: with gravity 0 and drag 0, after N world bounces with restitution r the speed
\* of a projectile is initialSpeed * r^N: a bounce keeps the magnitude of the velocity
\* in the reflection and scales it by r once.  (Both sides multiplied by the
\* denominators of r^N and of the scalings.)
C16_SpeedAfterBounces ==
  Length(velocity) * Pow(options.bounceRestitution.num, velocity.scalings)
                   * Pow(options.bounceRestitution.den, bounceCount)
    = initialSpeed * Pow(options.bounceRestitution.num, bounceCount)
                   * Pow(options.bounceRestitution.den, velocity.scalings)

\* launched at <<24, -32>> with restitution 1/2, bounced off a wall and off the floor
C16_Witness ==
  /\ options.bounceRestitution = [num |-> 1, den |-> 2]
  /\ initialSpeed = 40
  /\ bounceCount = 2
  /\ velocity = [x |-> -24, y |-> 32, scalings |-> 2]
  /\ projectileAlive

\* C18: with no collision meshes registered, after every player update and every enemy
\* update position.y is at least the agent's collision height, and when the floor
\* clamped the agent the downward velocity is zeroed and grounded is set; so the
\* agent's height stays bounded below.
C18_FlatFloorHoldsAgent ==
  ~collisionMeshes =>
    /\ positionY >= currentHeight
    /\ positionY >= Min(slideHeight, EnemyGroundHeight)
    /\ floorClamped => /\ positionY = currentHeight
                       /\ velocityY >= 0
                       /\ grounded

\* an enemy that fell from its spawn height onto the flat floor
C18_Witness ==
  /\ ~collisionMeshes
  /\ agent = "enemy"
  /\ floorClamped
  /\ positionY = EnemyGroundHeight
  /\ velocityY = 0
  /\ grounded

\* a player that the flat floor clamped, standing at less than full height after a slide
C18_PlayerClamped ==
  /\ ~collisionMeshes
  /\ agent = "player"
  /\ floorClamped
  /\ currentHeight < playerHeight
  /\ positionY = currentHeight
  /\ grounded

\* C19, beam half: the direction of a beam is never the zero vector, also when its start
\* point equals its target point.
C19_BeamDirectionNeverZero == beamAlive => direction /= <<0, 0>>

\* C19, orb half: the direction of an orb shot is never the zero vector; it is the
\* default <<0, 0, -1>> when the player stands where the enemy does on the firing tick.
C19_OrbShotDirectionNeverZero ==
  [][shooterSeen'.shots > shooterSeen.shots =>
       /\ shooter'.orbShotDir /= NoDir
       /\ VectorLength(shooterSeen'.offset) = 0 => shooter'.orbShotDir = DefaultShotDir]_vars

\* an orb fired with the player at the enemy's position
C19_OrbDefaultReached ==
  /\ shooter.orbShotEvent
  /\ shooterSeen.call = "update"
  /\ shooterSeen.shots = 1
  /\ shooterSeen.offset = <<0, 0, 0>>
  /\ shooter.orbShotDir = DefaultShotDir

\* C20: after any number of startNextLevel() calls 0 <= currentLevel < levels.length;
\* each call advances the index by one and wraps from the last level to 0.
C20_LevelIndexAdvancesAndWraps ==
  /\ [](currentLevel \in 0..(NumLevels - 1))
  /\ [][lastCall'.name = "startNextLevel" =>
          currentLevel' = (currentLevel + 1) % NumLevels]_vars

\* startNextLevel() called on the last level
C20_Witness ==
  /\ lastCall.name = "startNextLevel"
  /\ currentLevel = 0
  /\ phase = "fade-in"
  /\ defeatedFired = 1

ExplodedBy(id, cause) == [enemy |-> id, by |-> cause] \in frameExplosions

C23_AttackingTankStandsStill ==
  [][(tank.isAttacking /\ tankSeen'.call = "update") => tankSeen'.displacement = 0]_vars

\* C24: each attack sub-state of a type-1 enemy spawns exactly one beam, on the first
\* update where attackPreparationTime has elapsed since the attack started, and the
\* enemy never owns more than one beam.
BeamSpawned == tankSeen'.spawns = tankSeen.spawns + 1
C24_OneBeamPerAttack ==
  /\ [](Len(tank.attacks) <= 1)
  /\ [][/\ BeamSpawned =>
             /\ tank.isAttacking
             /\ tank.sinceLastAttack < attackPreparationTime
             /\ tank'.sinceLastAttack >= attackPreparationTime
        /\ (tank'.isAttacking /\ tank'.sinceLastAttack >= attackPreparationTime) =>
             tankSeen'.spawns = 1
        /\ (tank'.isAttacking /\ tank'.sinceLastAttack < attackPreparationTime) =>
             tankSeen'.spawns = 0
        /\ (tank.isAttacking /\ ~tank'.isAttacking) => tankSeen'.spawns = 1]_vars
\* an attack has ended, its one beam is still building
C24_Witness ==
  /\ tankSeen.wasAttacking /\ ~tank.isAttacking
  /\ tankSeen.spawns = 1 /\ Len(tank.attacks) = 1

\* C26: an update whose playerPosition is the enemy's own position changes nothing: an
\* idle enemy stays idle and an enemy that is not attacking starts no attack.
C26_UpdateAtOwnPositionIsIdle ==
  [][(tankSeen'.call = "update" /\ tankSeen'.offset = 0) =>
       /\ tank.state = "idle" => tank'.state = "idle"
       /\ ~tank.isAttacking => ~tank'.isAttacking]_vars

\* C27: idle becomes pursuing only on an update with the player closer than 15,
\* pursuing becomes idle only on one with the player farther than 25, and an update
\* with the player at a distance in [15, 25] leaves the state as it was.
PlayerDistanceSeen == Abs(tankSeen'.offset)
C27_StateChangesWithHysteresis ==
  [][tankSeen'.call = "update" =>
       /\ (tank.state = "idle" /\ tank'.state = "pursuing") =>
            PlayerDistanceSeen < DetectDistance
       /\ (tank.state = "pursuing" /\ tank'.state = "idle") =>
            PlayerDistanceSeen > LoseDistance
       /\ PlayerDistanceSeen \in DetectDistance..LoseDistance =>
            tank'.state = tank.state]_vars
\* a pursuing enemy updated with the player exactly at the distance 25
C27_Witness ==
  /\ tankSeen.call = "update" /\ tankSeen.offset = LoseDistance
  /\ tank.state = "pursuing"

\* C28: while a type-0 enemy is charging its horizontal velocity is zero when the update
\* integrates the position, so a charging enemy is not moved by its own movement.
C28_ChargingEnemyStandsStill ==
  (chargerSeen.call = "update" /\ charger.orbCharging) =>
    /\ chargerSeen.integrated = 0
    /\ charger.velocity = 0
\* a charge under way while the player stands where the enemy would approach
C28_Witness ==
  /\ chargerSeen.call = "update" /\ charger.orbCharging /\ charger.chargeElapsed > 0
  /\ charger.state = "pursuing" /\ chargerSeen.offset = 24

\* C22: every frame runs the stages player motion, enemy updates, projectile sweeps and
\* hit tests, effect aging and the level-sequencer update, each once and in that order,
\* a stage starting only after the stage before it has finished for all its entities.
C22_StagesOncePerFrameInOrder ==
  anim.rendered =>
    anim.ran = <<"player", "enemies", "projectiles", "effects", "levelSequencer">>
\* the stages a frame of the code has: the player's motion only with the pointer locked,
\* and no update of the level sequencer
C22_StagesTheFrameHas ==
  anim.rendered =>
    anim.ran \in {<<"player", "enemies", "projectiles", "effects">>,
                  <<"enemies", "projectiles", "effects">>}

\* C25: an enemy that was killed and keeps being updated eventually reaches the state
\* dead and raises its explosion and hide signal, whether or not its sprite sheet has
\* loaded.
C25_KilledEnemyReachesDead ==
  \A id \in EnemyIds :
    (enemy[id].state = "dying") ~>
      (enemy[id].state = "dead" /\ enemy[id].hideOnNextUpdate /\ ExplodedBy(id, "event"))

\* C29: over any sequence of update, kill and consumeExplosionEvent calls on an enemy,
\* consumeExplosionEvent returns true at most once, on the first poll after the update
\* in which the state became dead, and exactly one later update hides the mesh.
C29_OneExplosionOneHide ==
  /\ [](foeSeen.trueReturns <= 1 /\ foeSeen.hides <= 1)
  /\ [][foeSeen'.call = "consume" =>
          (foeSeen'.returned <=>
             foe.state = "dead" /\ foeSeen.diedInUpdate /\ foeSeen.pollsSinceDead = 0)]_vars
  /\ [][foeSeen'.call = "update" =>
          /\ (foe.state = "dead" /\ foeSeen.diedInUpdate /\ foeSeen.hides = 0) =>
               (foeSeen'.hides = 1 /\ ~foe'.visible)
          /\ foeSeen'.hides > foeSeen.hides =>
               (foe.state = "dead" /\ foeSeen.diedInUpdate)]_vars
\* the event was returned once, the mesh was hidden, and polls and updates went on
C29_Witness ==
  /\ foeSeen.trueReturns = 1 /\ foeSeen.hides = 1 /\ ~foe.visible
  /\ foeSeen.pollsSinceDead = 2 /\ foeSeen.call = "update"

\* C30: from fade-out, with update called again and again with dt > 0 and nothing else,
\* the phase becomes restarting when fadeAlpha reaches 1, leaves restarting only for
\* fade-in and only once its timer exceeds 1.5 s, leaves fade-in only for intro, and
\* eventually is intro with fadeAlpha = 0.
C30_FadeRunsBackToIntro ==
  /\ (phase = "fade-out") ~> (phase = "restarting" /\ fadeAlpha = AlphaOne)
  /\ (phase = "restarting") ~> (phase = "fade-in")
  /\ (phase = "fade-in") ~> (phase = "intro" /\ fadeAlpha = 0)
  /\ [][/\ (phase = "fade-out" /\ phase' /= phase) =>
             (phase' = "restarting" /\ fadeAlpha' = AlphaOne)
        /\ (phase = "fade-out" /\ phase' = phase) => fadeAlpha' < AlphaOne
        /\ (phase = "restarting" /\ phase' /= phase) =>
             (phase' = "fade-in" /\ phaseTimer + ClampedDt > BlackScreenTime)
        /\ (phase = "fade-in" /\ phase' /= phase) =>
             (phase' = "intro" /\ fadeAlpha' = 0)]_vars
\* back in intro with fadeAlpha 0, the phase timer showing the time the fade-in took
C30_Witness ==
  /\ phase = "intro" /\ fadeAlpha = 0 /\ lastCall.name = "update"
  /\ phaseTimer \in (AlphaOne \div ClampedDt)..AlphaOne

\* C31: on the update in which the fade-in completes (fadeAlpha reaches 0) the phase
\* becomes intro with playerHasMoved false, enemyDefeated false and fadeReason null, so
\* that shouldEnemyWait() is true again.
C31_FadeInEndsInFreshIntro ==
  [][(phase = "fade-in" /\ lastCall'.name = "update" /\ fadeAlpha' = 0) =>
       /\ phase' = "intro"
       /\ ~playerHasMoved' /\ ~enemyDefeated' /\ fadeReason' = "null"
       /\ ShouldEnemyWait']_vars
\* intro just entered by the update that completed a fade-in, on the second level
C31_Witness ==
  /\ phase = "intro" /\ lastCall.name = "update" /\ ~introTicked
  /\ fadeAlpha = 0 /\ currentLevel = 1 /\ ShouldEnemyWait

\* C39: in every reachable state of GameLoop, intro implies playerHasMoved false,
\* playing implies playerHasMoved true and enemyDefeated false, and fade-out or
\* restarting implies a fadeReason that is not null.
C39_PhaseFlagsConsistent ==
  /\ phase = "intro" => ~playerHasMoved
  /\ phase = "playing" => (playerHasMoved /\ ~enemyDefeated)
  /\ phase \in {"fade-out", "restarting"} => fadeReason /= "null"
\* playing entered again after a level in which the enemies had been defeated
C39_Witness ==
  /\ phase = "playing" /\ playerHasMoved /\ ~enemyDefeated
  /\ currentLevel = 1 /\ fadeReason = "null"

\* C32: update sets alive to false only for lifetime expiry (age >= lifetimeSeconds > 0),
\* for a world collision with no bounce configured or no surface normal, or for an
\* exhausted bounce budget; an update of a projectile that is not alive leaves its
\* velocity, age and bounce count as they were.
C32_ProjectileEndsForACause ==
  /\ [](~projectileAlive =>
          \/ /\ deathCause = "lifetime"
             /\ options.lifetimeSeconds > 0 /\ projectileAge >= options.lifetimeSeconds
          \/ /\ deathCause = "collision" /\ options.collideWithWorld
             /\ struck /= "no hit"
             /\ ~(options.bounceRestitution.num > 0) \/ struck = "none"
          \/ /\ deathCause = "budget" /\ options.collideWithWorld
             /\ struck \in {"x", "y"} /\ options.bounceRestitution.num > 0
             /\ options.maxBounces > 0 /\ bounceCount > options.maxBounces)
  /\ [][~projectileAlive =>
          /\ ~projectileAlive'
          /\ <<velocity, projectileAge, bounceCount>>' = <<velocity, projectileAge, bounceCount>>]_vars
\* a bouncing projectile ended by a hit without a surface normal, after a bounce, and
\* then updated again
C32_Witness ==
  /\ ~projectileAlive /\ deathCause = "collision" /\ struck = "none"
  /\ options.bounceRestitution.num > 0 /\ bounceCount = 1 /\ lastSweeps = 0

\* C33: in one update the sweep-and-reflect loop runs at most 6 times, the remaining time
\* is never negative and never increases, and the time moved in the sub-steps is at most
\* dt, whatever the collision queries return (hits at distance 0 on every sweep included).
C33_SweepTimeBounded ==
  /\ lastSweeps \in 0..maxIterations
  /\ \A i \in 1..Len(lastTimes.remaining) :
       /\ lastTimes.remaining[i] >= 0
       /\ i > 1 => lastTimes.remaining[i] <= lastTimes.remaining[i - 1]
  /\ lastTimes.moved >= 0
  /\ lastTimes.remaining /= <<>> => lastTimes.moved <= lastTimes.remaining[1]
\* six sweeps that each hit half way to the end of the step and bounce
C33_HalfWayWitness ==
  /\ projectileAlive /\ lastSweeps = maxIterations /\ lastTimes.moved > 0
  /\ Len(lastTimes.remaining) = 2 * maxIterations + 1
  /\ lastTimes.remaining[2 * maxIterations + 1] > 0
\* six sweeps that each hit at distance 0 and bounce: no time is used by a move
C33_Witness ==
  /\ projectileAlive /\ lastSweeps = maxIterations /\ lastTimes.moved = 0
  /\ Len(lastTimes.remaining) = 2 * maxIterations + 1
  /\ lastTimes.remaining[2 * maxIterations + 1] = lastTimes.remaining[1] - maxIterations * ProgressNudge

C35_DoorsLeaveTheCollisionSet ==
  /\ [](/\ doorSeen.removed = [i \in 1..(nextDoorIndex - FirstDoor) |-> FirstDoor + i - 1]
        /\ \A i \in 1..Len(collisionMeshList) :
             \A k \in 1..Len(doorSeen.removed) : collisionMeshList[i].door /= doorSeen.removed[k]
        /\ doorSeen.call \in ProbeKinds =>
             \A mesh \in doorSeen.tested :
               \A k \in 1..Len(doorSeen.removed) : mesh.door /= doorSeen.removed[k])
  /\ [][(doorSeen'.call = "removeNextDoor" /\ mapRoot.loaded /\ mapRoot.attached /= {}) =>
          /\ \A d \in mapRoot.attached : nextDoorIndex <= d
          /\ doorSeen'.removed = Append(doorSeen.removed, nextDoorIndex)
          /\ mapRoot'.attached = mapRoot.attached \ {nextDoorIndex}]_vars
\* a beam probe after Door1 and Door2, the second with two meshes, have been removed
C35_Witness ==
  /\ doorSeen.call = "beam" /\ doorSeen.removed = <<1, 2>>
  /\ mapRoot.loaded /\ mapRoot.map.parts[2] = 2
  /\ Cardinality(doorSeen.tested) = Len(PushAll(mapRoot.map, mapRoot.map.order)) - 3

\* C36: an enemy that is not alive never becomes alive again and its state is dying or
\* dead from then on, whatever range of the player its updates are given; the only change
\* of state left to it is from dying to dead.
C36_DeathIsFinal ==
  /\ [](~foe.alive => foe.state \in {"dying", "dead"})
  /\ [][~foe.alive =>
          /\ ~foe'.alive
          /\ foe'.state = foe.state \/ (foe.state = "dying" /\ foe'.state = "dead")]_vars
\* a killed type-0 enemy that an update has moved from dying to dead
C36_Witness ==
  /\ ~foe.alive /\ foe.state = "dead" /\ foe.type = 0
  /\ foeSeen.call = "update" /\ foeSeen.diedInUpdate

\* C37: between one shot of a type-0 enemy and its next at least orbCooldownSeconds +
\* orbChargeDurationSeconds of its update time pass, and every shot follows a charge start
\* of that enemy with no other shot since that start.
C37_ShotsACooldownAndAChargeApart ==
  /\ [](shotClock.gap >= ShotGap)
  /\ [][(shooterSeen'.call = "update" /\ shooter'.sinceLastAttack = 0) =>
          /\ shooter.type = 0
          /\ shooter.orbCharging /\ ~shooter'.orbCharging
          /\ shooterSeen'.shots = 1
          /\ shotClock'.sinceShot = 0]_vars
\* the update after a second shot: the enemy has shot, waited, charged and shot again
C37_Witness ==
  /\ shooter.type = 0 /\ shooterSeen.call = "update"
  /\ shooter.sinceLastAttack = ClampedDt /\ shotClock.sinceShot = ClampedDt
  /\ shooterSeen.shots = 1 /\ shotClock.gap = ShotGap /\ shotClock.fired = 2

\* C38, for a type-1 enemy: an enemy that is not alive is not attacking, and no update of
\* it starts an attack or pushes a TankAttack, also when it was killed while preparing one.
C38_KilledEnemyAttacksNoMore ==
  /\ [](~tank.alive => ~tank.isAttacking)
  /\ [][~tank.alive =>
          /\ ~BeamSpawned
          /\ Len(tank'.attacks) <= Len(tank.attacks)
          /\ tank'.isAttacking => tank.isAttacking]_vars
\* the part of C38 a killed type-1 enemy keeps: its updates start no attack
C38_KilledEnemyStartsNoAttack ==
  [][~tank.alive => (tank'.isAttacking => tank.isAttacking)]_vars
\* the update of a killed enemy pushes the beam of the attack it was preparing
C38_BeamOfAKilledEnemy ==
  /\ ~tank.alive /\ tankSeen.call = "update" /\ tankSeen.spawns = 1
  /\ Len(tank.attacks) = 1 /\ tank.attacks[1] <= ClampedDt

\* C40: reset() leaves currentLevel as it is, and from the reset on the sequencer and a
\* new GameLoop at that level index, given the same update and trigger calls, are in the
\* same phase with the same fadeAlpha after every call and invoke the same callbacks.
C40_ResetIsLikeNew ==
  /\ [](twinSeen.reset =>
          /\ used.phase = fresh.phase
          /\ used.fadeAlpha = fresh.fadeAlpha
          /\ used.currentLevel = fresh.currentLevel
          /\ twinSeen.usedFired = twinSeen.freshFired)
  /\ [][twinSeen'.call = "reset" => used'.currentLevel = used.currentLevel]_vars
\* a sequencer reset during a death fade has since gone through a mask pickup and its
\* fade-out: both invoke onFadeComplete
C40_Witness ==
  /\ twinSeen.reset /\ twinSeen.resetWith = "player-death"
  /\ used.currentLevel = 1
  /\ used.phase = "restarting" /\ used.fadeReason = "level-advance"
  /\ twinSeen.usedFired = <<"onFadeComplete">>

=============================================================================
